---------------------------- MODULE Spec2Model ----------------------------
(***************************************************************************)
(* Model of the EMBRACE 1-second magnetometer processing scripts:          *)
(*   magnetometer-converter.py  (IAGA-2002 export, magnetometer_to_iaga)   *)
(*   process_embrace_data.py    (CSV export, module-level script)          *)
(*   process_raw_data.py        (calibration lookup and unit conversion)   *)
(*                                                                         *)
(* Specifications:                                                         *)
(*   SpecConv  the three copies of convert_to_hdz applied to bounded input *)
(*   SpecCal   calibration resolution on bounded calibration tables        *)
(*   Spec      one run of magnetometer_to_iaga over a bounded input tree   *)
(*   SpecCsv   one run of the process_embrace_data.py export loop          *)
(*   SpecRerun two runs of magnetometer_to_iaga over one fixed input tree  *)
(*   SpecZip   get_zip_file_contents on bounded member lists               *)
(*   SpecParse the data-line loop of read_text_file_from_zip               *)
(*   download-embrace-data.py   (EmbraceDataDownloader)                    *)
(*   SpecDownload one call of download_file_async                          *)
(*   SpecAll   download_all_async over a bounded server listing            *)
(*   SpecAllFair  SpecAll with every ready task run and every HTTP request *)
(*             answered                                                    *)
(***************************************************************************)
EXTENDS Integers, Sequences, FiniteSets, TLC

VARIABLES
    \* ---- unit converter (SpecConv)
    conv_raw,          \* raw = [H(Ch2), D(Ch4), Z(Ch6)] of one sample
    conv_slope,        \* one row of embrace_solpe_offset_factors.csv
    conv_scaling,      \* one row of embrace_scaling_factors.csv
    conv_by,           \* which copy of convert_to_hdz ran ("none" before)
    conv_out,          \* the (H, D, Z) it returned
    \* ---- calibration tables (SpecCal, Spec, SpecCsv)
    scaling_factors,   \* embrace_scaling_factors.csv, rows in file order
    slope_factors,     \* embrace_solpe_offset_factors.csv, rows in file order
    \* ---- calibration resolution (SpecCal)
    cal_pc,            \* outcome of the latest lookup: "idle" | "done" | "skipped" | "raised"
    cal_station,       \* station code the lookups are for
    cal_prev,          \* the lookup before the latest one (NoLookup if none)
    cal_last,          \* the latest lookup: [day, scaling, slope], rows by position
    \* ---- the export runs (Spec: magnetometer_to_iaga, SpecCsv: process_embrace_data)
    STATION_COORDINATES, \* station codes that have a row in station_coordinates.csv
    pc,                \* "glob" | "zip" | "assemble" | "done" | "aborted" ("off" outside a run)
    unit,              \* position in Units of the station-day being processed
    zip_files,         \* number of archives glob found for the station-day
    zi,                \* position in sorted(zip_files) of the next archive
    day_data,          \* list of the hourly frames accepted so far
    csv_day,           \* the script variable `day` of process_embrace_data.py
    files,             \* per station-day, its output file: "none" | "empty" | "written"
    out_file,          \* what the latest open(..., 'w') block wrote; Closed once the
                       \* loop has moved on to the next station-day
    sort_ties,         \* how this build's quicksort leaves rows of equal time:
                       \* "keep" (input order) | "reverse"
    log,               \* lines written to the run log, in order
    outside_data,      \* days of the year outside the loop's range for which the
                       \* station directory holds a usable archive
    \* ---- a second run over the same input tree (SpecRerun)
    disk,              \* per station-day, the archives glob finds, in sorted order
    contents,          \* per station-day, the body of its output file
    run,               \* 1 during the first run, 2 during the second (0 outside)
    first_run,         \* the output tree as the first run left it
    \* ---- the archive record extractor (SpecZip, SpecParse)
    file_list,         \* zip_ref.namelist(): member names in archive order
    zip_year,          \* the year argument of get_zip_file_contents
    zip_contents,      \* what get_zip_file_contents returned or raised
    lines,             \* content.strip().split('\n'): the lines of the member
    header_lines,      \* the lines the scan for 'HH MM SS' collected
    data_start_line,   \* number of lines left out of data_lines (0 before the scan)
    data_lines,        \* lines[data_start_line:], each the list of its tokens
    line_no,           \* position in data_lines of the next line to parse
                       \* (0 before the scan for 'HH MM SS')
    columns,           \* the eight lists hh, mm, ss, h_ch2, d_ch4, z_ch6, t1_ch7, t2_ch8
    \* ---- the downloader (SpecDownload, SpecAll)
    semaphore,         \* free permits of self.semaphore (0 while it is None)
    dl_pc,             \* position of the one call of download_file_async:
                       \* "off" | "sem" | "check" | "get" | "body" | "returned"
    attempt,           \* the loop variable of `for attempt in range(retries)`
    requests,          \* GET requests the call has issued for its file
    body,              \* the chunks of the file as the server holds it
    fs,                \* the files at output_path (final) and output_path.part (part)
    dl_result,         \* what the call returned: "none" | "True" | "False"
    max_concurrent_downloads, \* the three arguments of download_all_async
    max_concurrent_stations,
    max_concurrent_years,
    all_pc,            \* download_all_async: "off" | "start" | "gather" | "returned"
    year_semaphore,    \* free permits of year_semaphore
    year_tasks,        \* per year: "none" | "wait" | "stations" | "gather" | "done"
    year_results,      \* per year, what process_year_async returned
    station_semaphore, \* per year, free permits of its station_semaphore
    station_tasks,     \* per (year, station): "none" | "wait" | "files" | "gather" | "done"
    station_results,   \* per (year, station), what process_station_async returned
    download_tasks,    \* per (year, station, file):
                       \* "none" | "wait" | "held" | "True" | "False" | "done"
    main_pbar,         \* progress_manager.main_pbar.n
    total_files        \* what download_all_async returned

convVars == <<conv_raw, conv_slope, conv_scaling, conv_by, conv_out>>
tabVars  == <<scaling_factors, slope_factors>>
calVars  == <<cal_pc, cal_station, cal_prev, cal_last>>
runVars  == <<STATION_COORDINATES, pc, unit, zip_files, zi, day_data, csv_day, files, out_file, sort_ties, log>>
rerunVars == <<disk, contents, run, first_run>>
zipVars  == <<file_list, zip_year, zip_contents>>
parseVars == <<lines, header_lines, data_start_line, data_lines, line_no, columns>>
callVars == <<dl_pc, attempt, requests, body, fs, dl_result>>
argVars  == <<max_concurrent_downloads, max_concurrent_stations, max_concurrent_years>>
taskVars == <<all_pc, year_semaphore, year_tasks, year_results, station_semaphore,
              station_tasks, station_results, download_tasks, main_pbar, total_files>>
dlVars   == <<semaphore, callVars, argVars, taskVars>>
extVars  == <<outside_data, dlVars, rerunVars, zipVars, parseVars>>
vars     == <<convVars, tabVars, extVars, calVars, runVars, extVars>>

-----------------------------------------------------------------------------
(* Exact arithmetic.  Python floats are modelled as rationals <<n, d>> with d > 0 *)
(* in lowest terms; Undef stands for a non-finite float (inf or nan), which *)
(* numpy produces on division by zero and which every later + * / keeps     *)
(* non-finite, because the code only ever divides by table values.          *)

Abs(x) == IF x < 0 THEN -x ELSE x

RECURSIVE GCD(_, _)
GCD(a, b) == IF b = 0 THEN a ELSE GCD(b, a % b)

Undef == <<0, 0>>

Norm(n, d) ==
    LET g == GCD(Abs(n), Abs(d))
        s == IF d < 0 THEN -1 ELSE 1
    IN  <<(s * n) \div g, (s * d) \div g>>

R(n) == <<n, 1>>

RAdd(a, b) ==
    IF a = Undef \/ b = Undef THEN Undef
    ELSE Norm(a[1] * b[2] + b[1] * a[2], a[2] * b[2])

RMul(a, b) ==
    IF a = Undef \/ b = Undef THEN Undef
    ELSE Norm(a[1] * b[1], a[2] * b[2])

RDiv(a, b) ==
    IF a = Undef \/ b = Undef \/ b[1] = 0 THEN Undef
    ELSE Norm(a[1] * b[2], a[2] * b[1])

-----------------------------------------------------------------------------
(* Unit converter: the three textual copies of convert_to_hdz.             *)
(* Python evaluates  x / Ds * 1 / Hb * 3438 / 60  left to right.            *)

\* a copy that divides D by its own bias Db instead of the H-axis bias Hb
convert_to_hdz_OwnBias(slope, scaling, raw) ==
    LET H == RAdd(RDiv(RAdd(RAdd(RMul(raw[1], slope.LS), slope.LO), slope.H),
                       scaling.Hs), scaling.Hb)
        D == RAdd(RDiv(RMul(RDiv(RMul(RDiv(RAdd(RAdd(RMul(raw[2], slope.LS),
                                                      slope.LO), slope.D),
                                                 scaling.Ds),
                                            R(1)),
                                       scaling.Db),
                                  R(3438)),
                             R(60)),
                  scaling.Db)
        Z == RAdd(RDiv(RAdd(RAdd(RMul(raw[3], slope.LS), slope.LO), slope.Z),
                       scaling.Zs), scaling.Zb)
    IN  <<H, D, Z>>

\* a copy that forgets to add the bias Hb to H
convert_to_hdz_NoBias(slope, scaling, raw) ==
    LET H == RDiv(RAdd(RAdd(RMul(raw[1], slope.LS), slope.LO), slope.H),
                  scaling.Hs)
        D == RAdd(RDiv(RMul(RDiv(RMul(RDiv(RAdd(RAdd(RMul(raw[2], slope.LS),
                                                      slope.LO), slope.D),
                                                 scaling.Ds),
                                            R(1)),
                                       scaling.Hb),
                                  R(3438)),
                             R(60)),
                  scaling.Db)
        Z == RAdd(RDiv(RAdd(RAdd(RMul(raw[3], slope.LS), slope.LO), slope.Z),
                       scaling.Zs), scaling.Zb)
    IN  <<H, D, Z>>

\* magnetometer-converter.py
convert_to_hdz(slope, scaling, raw) ==
    LET H == RAdd(RDiv(RAdd(RAdd(RMul(raw[1], slope.LS), slope.LO), slope.H),
                       scaling.Hs), scaling.Hb)
        D == RAdd(RDiv(RMul(RDiv(RMul(RDiv(RAdd(RAdd(RMul(raw[2], slope.LS),
                                                      slope.LO), slope.D),
                                                 scaling.Ds),
                                            R(1)),
                                       scaling.Hb),
                                  R(3438)),
                             R(60)),
                  scaling.Db)
        Z == RAdd(RDiv(RAdd(RAdd(RMul(raw[3], slope.LS), slope.LO), slope.Z),
                       scaling.Zs), scaling.Zb)
    IN  <<H, D, Z>>

\* process_raw_data.py
convert_to_hdz_raw(slope, scalling, raw) ==
    LET H == RAdd(RDiv(RAdd(RAdd(RMul(raw[1], slope.LS), slope.LO), slope.H),
                       scalling.Hs), scalling.Hb)
        D == RAdd(RDiv(RMul(RDiv(RMul(RDiv(RAdd(RAdd(RMul(raw[2], slope.LS),
                                                      slope.LO), slope.D),
                                                 scalling.Ds),
                                            R(1)),
                                       scalling.Hb),
                                  R(3438)),
                             R(60)),
                  scalling.Db)
        Z == RAdd(RDiv(RAdd(RAdd(RMul(raw[3], slope.LS), slope.LO), slope.Z),
                       scalling.Zs), scalling.Zb)
    IN  <<H, D, Z>>

\* process_embrace_data.py
convert_to_hdz_csv(slope, scalling, raw) ==
    LET H == RAdd(RDiv(RAdd(RAdd(RMul(raw[1], slope.LS), slope.LO), slope.H),
                       scalling.Hs), scalling.Hb)
        D == RAdd(RDiv(RMul(RDiv(RMul(RDiv(RAdd(RAdd(RMul(raw[2], slope.LS),
                                                      slope.LO), slope.D),
                                                 scalling.Ds),
                                            R(1)),
                                       scalling.Hb),
                                  R(3438)),
                             R(60)),
                  scalling.Db)
        Z == RAdd(RDiv(RAdd(RAdd(RMul(raw[3], slope.LS), slope.LO), slope.Z),
                       scalling.Zs), scalling.Zb)
    IN  <<H, D, Z>>

\* Inputs of the converter specification.
ConvRaws == { <<R(100), R(200), R(300)>>, <<R(-7), R(5), R(0)>> }

ConvSlopes ==
    [LS : {R(1), R(2)}, LO : {R(0), R(3)}, H : {R(0), R(-1)},
     D : {R(0), R(4)}, Z : {R(0)}]

ConvScalings ==
    [Hs : {R(1), R(2)}, Hb : {R(0), R(1), R(3)}, Ds : {R(1), R(0), R(5)},
     Db : {R(0), R(2)}, Zs : {R(1)}, Zb : {R(0), R(-4)}]

IdleConv ==
    /\ conv_raw = <<R(0), R(0), R(0)>>
    /\ conv_slope = [LS |-> R(1), LO |-> R(0), H |-> R(0), D |-> R(0), Z |-> R(0)]
    /\ conv_scaling = [Hs |-> R(1), Hb |-> R(1), Ds |-> R(1), Db |-> R(0),
                       Zs |-> R(1), Zb |-> R(0)]
    /\ conv_by = "none"
    /\ conv_out = <<Undef, Undef, Undef>>

IdleTables ==
    /\ scaling_factors = <<>>
    /\ slope_factors = <<>>

NoLookup == [day |-> 0, scaling |-> 0, slope |-> 0]

IdleCal ==
    /\ cal_pc = "idle"
    /\ cal_station = "ABC"
    /\ cal_prev = NoLookup
    /\ cal_last = NoLookup

NoRun == [files |-> <<>>, contents |-> <<>>]

IdleRerun ==
    /\ disk = <<>>
    /\ contents = <<>>
    /\ run = 0
    /\ first_run = NoRun

NoLines == [hh |-> <<>>, mm |-> <<>>, ss |-> <<>>, h_ch2 |-> <<>>,
            d_ch4 |-> <<>>, z_ch6 |-> <<>>, t1_ch7 |-> <<>>, t2_ch8 |-> <<>>]

NotCalled == [called |-> FALSE, raised |-> "", member |-> <<>>]

IdleZip ==
    /\ file_list = <<>>
    /\ zip_year = 0
    /\ zip_contents = NotCalled

IdleParse ==
    /\ lines = <<>>
    /\ header_lines = <<>>
    /\ data_start_line = 0
    /\ data_lines = <<>>
    /\ line_no = 0
    /\ columns = NoLines

Absent == [exists |-> FALSE, data |-> << >>]

IdleDl ==
    /\ semaphore = 0
    /\ dl_pc = "off"
    /\ attempt = 0
    /\ requests = 0
    /\ body = << >>
    /\ fs = [final |-> Absent, part |-> Absent]
    /\ dl_result = "none"
    /\ max_concurrent_downloads = 0
    /\ max_concurrent_stations = 0
    /\ max_concurrent_years = 0
    /\ all_pc = "off"
    /\ year_semaphore = 0
    /\ year_tasks = << >>
    /\ year_results = << >>
    /\ station_semaphore = << >>
    /\ station_tasks = << >>
    /\ station_results = << >>
    /\ download_tasks = << >>
    /\ main_pbar = 0
    /\ total_files = 0

IdleExt ==
    /\ outside_data = {}
    /\ IdleDl
    /\ IdleRerun
    /\ IdleZip
    /\ IdleParse

IdleRun ==
    /\ STATION_COORDINATES = {}
    /\ pc = "off"
    /\ unit = 0
    /\ zip_files = 0
    /\ zi = 0
    /\ day_data = <<>>
    /\ csv_day = 0
    /\ files = <<>>
    /\ out_file = [open |-> FALSE, path |-> <<>>, header |-> FALSE, lines |-> <<>>]
    /\ sort_ties = "keep"
    /\ log = <<>>

InitConv ==
    /\ conv_raw \in ConvRaws
    /\ conv_slope \in ConvSlopes
    /\ conv_scaling \in ConvScalings
    /\ conv_by = "none"
    /\ conv_out = <<Undef, Undef, Undef>>
    /\ IdleTables
    /\ IdleCal
    /\ IdleRun
    /\ IdleExt

ConvertIaga ==
    /\ conv_by = "none"
    /\ conv_by' = "magnetometer-converter"
    /\ conv_out' = convert_to_hdz(conv_slope, conv_scaling, conv_raw)
    /\ UNCHANGED <<conv_raw, conv_slope, conv_scaling, tabVars, extVars,
                   calVars, runVars>>

ConvertRaw ==
    /\ conv_by = "none"
    /\ conv_by' = "process_raw_data"
    /\ conv_out' = convert_to_hdz_raw(conv_slope, conv_scaling, conv_raw)
    /\ UNCHANGED <<conv_raw, conv_slope, conv_scaling, tabVars, extVars,
                   calVars, runVars>>

ConvertCsv ==
    /\ conv_by = "none"
    /\ conv_by' = "process_embrace_data"
    /\ conv_out' = convert_to_hdz_csv(conv_slope, conv_scaling, conv_raw)
    /\ UNCHANGED <<conv_raw, conv_slope, conv_scaling, tabVars, extVars,
                   calVars, runVars>>

NextConv == ConvertIaga \/ ConvertRaw \/ ConvertCsv

SpecConv == InitConv /\ [][NextConv]_vars

-----------------------------------------------------------------------------
(* Calibration tables and calibration resolution.                          *)
(* A table is the sequence of its CSV rows in file order (pd.read_csv keeps *)
(* it; nothing in the code sorts it).  Dates are day numbers.               *)

MaxRows == 2

Upper(s) == CASE s = "abc" -> "ABC" [] s = "xyz" -> "XYZ" [] OTHER -> s

ScalingRow(st, d) ==
    [Station_code |-> st, valid_from_date |-> d,
     Hs |-> R(1), Hb |-> R(1), Ds |-> R(1), Db |-> R(0), Zs |-> R(1), Zb |-> R(0)]

SlopeRow(st, d) ==
    [station_code |-> st, Valid_from |-> d,
     LS |-> R(1), LO |-> R(0), H |-> R(0), D |-> R(0), Z |-> R(0)]

SeqsUpTo(S, n) == UNION { [1..k -> S] : k \in 0..n }

\* (station, effective-from date) of the rows the bounded tables are built of
CalRowKeys == { <<"ABC", 1>>, <<"ABC", 2>>, <<"ABC", 3>>, <<"XYZ", 2>> }
CalDays == 1..3
CalStations == { "abc", "ABC" }

\* df.iloc[-1] of a non-empty selection of row positions
ILocLast(idx) == CHOOSE i \in idx : \A j \in idx : j <= i

\* a mask that joins its two conditions with | instead of &
mask_scaling_Or(table, day_datetime, stationcode) ==
    { i \in DOMAIN table :
        \/ table[i].valid_from_date <= day_datetime
        \/ table[i].Station_code = stationcode }

\* magnetometer-converter.py: mask_scaling / mask_slope
mask_scaling(table, day_datetime, stationcode) ==
    { i \in DOMAIN table :
        /\ table[i].valid_from_date <= day_datetime
        /\ table[i].Station_code = stationcode }

\* the slope mask with | in place of &
mask_slope_Or(table, day_datetime, stationcode) ==
    { i \in DOMAIN table :
        \/ table[i].Valid_from <= day_datetime
        \/ table[i].station_code = stationcode }

mask_slope(table, day_datetime, stationcode) ==
    { i \in DOMAIN table :
        /\ table[i].Valid_from <= day_datetime
        /\ table[i].station_code = stationcode }

\* process_raw_data.py: get_slope_offset_factors
maskscaling_raw(table, day, station_code) ==
    { i \in DOMAIN table :
        /\ table[i].valid_from_date <= day
        /\ table[i].Station_code = station_code }

mask_slope_raw(table, day, station_code) ==
    { i \in DOMAIN table :
        /\ table[i].Valid_from <= day
        /\ table[i].station_code = station_code }

InitCal ==
    /\ scaling_factors \in
         SeqsUpTo({ ScalingRow(k[1], k[2]) : k \in CalRowKeys }, MaxRows)
    /\ slope_factors \in
         SeqsUpTo({ SlopeRow(k[1], k[2]) : k \in CalRowKeys }, MaxRows)
    /\ cal_pc = "idle"
    /\ cal_station \in CalStations
    /\ cal_prev = NoLookup
    /\ cal_last = NoLookup
    /\ IdleConv
    /\ IdleRun
    /\ IdleExt

\* magnetometer-converter.py, the lookup inside the per-archive try block:
\* an empty selection prints a message and continues with the next archive.
LookupIaga ==
    \E day \in CalDays :
        LET filtered_scaling ==
                mask_scaling(scaling_factors, day, Upper(cal_station))
            filtered_slope ==
                mask_slope(slope_factors, day, Upper(cal_station))
        IN  /\ cal_prev' = cal_last
            /\ IF filtered_scaling = {}
               THEN /\ cal_pc' = "skipped"
                    /\ cal_last' = [day |-> day, scaling |-> 0, slope |-> 0]
               ELSE IF filtered_slope = {}
               THEN /\ cal_pc' = "skipped"
                    /\ cal_last' = [day |-> day,
                                    scaling |-> ILocLast(filtered_scaling),
                                    slope |-> 0]
               ELSE /\ cal_pc' = "done"
                    /\ cal_last' = [day |-> day,
                                    scaling |-> ILocLast(filtered_scaling),
                                    slope |-> ILocLast(filtered_slope)]
            /\ UNCHANGED <<cal_station, tabVars, extVars, convVars, runVars>>

\* process_raw_data.py, get_slope_offset_factors: iloc[-1] of an empty
\* selection raises IndexError.
LookupRaw ==
    \E day \in CalDays :
        LET filtered_scaling ==
                maskscaling_raw(scaling_factors, day, cal_station)
            filtered_slope ==
                mask_slope_raw(slope_factors, day, cal_station)
        IN  /\ cal_prev' = cal_last
            /\ IF filtered_scaling = {}
               THEN /\ cal_pc' = "raised"
                    /\ cal_last' = [day |-> day, scaling |-> 0, slope |-> 0]
               ELSE IF filtered_slope = {}
               THEN /\ cal_pc' = "raised"
                    /\ cal_last' = [day |-> day,
                                    scaling |-> ILocLast(filtered_scaling),
                                    slope |-> 0]
               ELSE /\ cal_pc' = "done"
                    /\ cal_last' = [day |-> day,
                                    scaling |-> ILocLast(filtered_scaling),
                                    slope |-> ILocLast(filtered_slope)]
            /\ UNCHANGED <<cal_station, tabVars, extVars, convVars, runVars>>

NextCal == LookupIaga \/ LookupRaw

SpecCal == InitCal /\ [][NextCal]_vars

-----------------------------------------------------------------------------
(* get_zip_file_contents (magnetometer-converter.py).                      *)
(* A member name is the sequence of its characters.                        *)

MaxMembers == 2

\* str(year)[-2:] for a four-digit year: its last two decimal digits
Digit(n) == CASE n = 0 -> "0" [] n = 1 -> "1" [] n = 2 -> "2" [] n = 3 -> "3"
              [] n = 4 -> "4" [] n = 5 -> "5" [] n = 6 -> "6" [] n = 7 -> "7"
              [] n = 8 -> "8" [] n = 9 -> "9"

LastTwo(year) == << Digit((year \div 10) % 10), Digit(year % 10) >>

\* sub in name, for sequences of characters
Contains(name, sub) ==
    \E k \in 0..(Len(name) - Len(sub)) :
        \A i \in 1..Len(sub) : name[k + i] = sub[i]

\* the comprehension of line 57 keeps a member on either spelling of the marker
YearMarked(name, year) ==
    \/ Contains(name, LastTwo(year) \o << "S" >>)
    \/ Contains(name, LastTwo(year) \o << "s" >>)

\* the last matching member instead of the first
get_zip_file_contents_Last(names, year) ==
    IF names = << >>
    THEN [called |-> TRUE, raised |-> "No files found in ZIP", member |-> << >>]
    ELSE LET correct_year_file ==
                 SelectSeq(names, LAMBDA ff : YearMarked(ff, year))
         IN  IF Len(correct_year_file) > 0
             THEN [called |-> TRUE, raised |-> "",
                   member |-> correct_year_file[Len(correct_year_file)]]
             ELSE [called |-> TRUE, raised |-> "No file for year", member |-> << >>]

get_zip_file_contents(names, year) ==
    IF names = << >>
    THEN [called |-> TRUE, raised |-> "No files found in ZIP", member |-> << >>]
    ELSE LET correct_year_file ==
                 SelectSeq(names, LAMBDA ff : YearMarked(ff, year))
         IN  IF Len(correct_year_file) > 0
             THEN [called |-> TRUE, raised |-> "", member |-> correct_year_file[1]]
             ELSE [called |-> TRUE, raised |-> "No file for year", member |-> << >>]

\* member names as they occur in the archives: a.24s, a.24S, a.23s, 24sa,
\* a.24x and S24 (s for the lower-case name of the hourly text file)
MemberNames ==
    { << "a", ".", "2", "4", "s" >>,
      << "a", ".", "2", "4", "S" >>,
      << "a", ".", "2", "3", "s" >>,
      << "2", "4", "s", "a" >>,
      << "a", ".", "2", "4", "x" >>,
      << "S", "2", "4" >> }

ZipYears == { 2023, 2024 }

InitZip ==
    /\ file_list \in SeqsUpTo(MemberNames, MaxMembers)
    /\ zip_year \in ZipYears
    /\ zip_contents = NotCalled
    /\ outside_data = {}
    /\ IdleDl
    /\ IdleRerun
    /\ IdleParse
    /\ IdleConv
    /\ IdleTables
    /\ IdleCal
    /\ IdleRun

GetZipFileContents ==
    /\ ~zip_contents.called
    /\ zip_contents' = get_zip_file_contents(file_list, zip_year)
    /\ UNCHANGED <<file_list, zip_year, outside_data, dlVars, rerunVars, parseVars,
                   convVars, tabVars, calVars, runVars>>

NextZip == GetZipFileContents

SpecZip == InitZip /\ [][NextZip]_vars

-----------------------------------------------------------------------------
(* read_text_file_from_zip (magnetometer-converter.py): the loop over the  *)
(* data lines.  A line is the list of its whitespace-separated tokens; a   *)
(* token is an integer literal, a decimal literal or any other text.       *)

MaxLines == 2

IntTok(n) == [lit |-> "int", val |-> n]
DecTok(n, d) == [lit |-> "dec", val |-> << n, d >>]
BadTok == [lit |-> "text", val |-> 0]

\* int(tok) and float(tok): whether they return, and what
IntParses(tok) == tok.lit = "int"
FloatParses(tok) == tok.lit \in { "int", "dec" }
FloatOf(tok) == IF tok.lit = "int" THEN R(tok.val) ELSE Norm(tok.val[1], tok.val[2])

NaN == Undef

\* the lists in the order the try block appends to them
ColumnNames == << "hh", "mm", "ss", "h_ch2", "d_ch4", "z_ch6", "t1_ch7", "t2_ch8" >>

\* the i-th append of the try block returns
AppendReturns(parts, i) ==
    IF i <= 3 THEN IntParses(parts[i])
    ELSE IF i <= 6 THEN FloatParses(parts[i])
    ELSE IF Len(parts) > i - 1 THEN FloatParses(parts[i])
    ELSE TRUE

\* the value the i-th append adds
Appended(parts, i) ==
    IF i <= 3 THEN parts[i].val
    ELSE IF i <= 6 THEN FloatOf(parts[i])
    ELSE IF Len(parts) > i - 1 THEN FloatOf(parts[i])
    ELSE NaN

\* the number of appends done when the try block is left, by its end or by
\* the first ValueError
AppendsDone(parts) ==
    CHOOSE n \in 0..8 :
        /\ \A i \in 1..n : AppendReturns(parts, i)
        /\ n < 8 => ~AppendReturns(parts, n + 1)

\* lines 92-121 for one line
ParseStep(cols, parts) ==
    IF Len(parts) < 6
    THEN cols
    ELSE [c \in DOMAIN cols |->
             LET i == CHOOSE k \in DOMAIN ColumnNames : ColumnNames[k] = c
             IN  IF i <= AppendsDone(parts)
                 THEN Append(cols[c], Appended(parts, i))
                 ELSE cols[c]]

GoodLine(hh, mm, ss) ==
    << IntTok(hh), IntTok(mm), IntTok(ss), DecTok(15, 10), IntTok(-2), DecTok(7, 2) >>

\* the data lines the bounded parses read: well-formed with 6, 7 and 8
\* tokens, blank, too short, and with a token that is not a number (or, in
\* the time fields, not an integer) in positions 1, 2, 3, 5, 7 and 8
ParseLines ==
    { GoodLine(0, 0, 1),
      GoodLine(0, 0, 2) \o << DecTok(255, 10) >>,
      GoodLine(0, 0, 3) \o << DecTok(255, 10), IntTok(30) >>,
      << >>,
      << IntTok(0), IntTok(0), IntTok(4), IntTok(1), IntTok(2) >>,
      [GoodLine(0, 0, 5) EXCEPT ![1] = BadTok],
      [GoodLine(9, 0, 6) EXCEPT ![2] = BadTok],
      [GoodLine(0, 0, 7) EXCEPT ![3] = DecTok(75, 10)],
      [GoodLine(0, 0, 8) EXCEPT ![5] = BadTok],
      GoodLine(0, 0, 9) \o << BadTok >>,
      GoodLine(0, 0, 10) \o << DecTok(255, 10), BadTok >> }

TextLine(parts) == [marker |-> FALSE, parts |-> parts]

\* the line 'HH MM SS H(Ch2) D(Ch4) Z(Ch6) T1(Ch7) T2(Ch8)'
MarkerLine == [marker |-> TRUE, parts |-> [i \in 1..8 |-> BadTok]]

\* a line of the member's heading, such as the station name and day
HeadingLine == TextLine(<< BadTok, BadTok >>)

MemberLines == { MarkerLine, HeadingLine } \cup { TextLine(p) : p \in ParseLines }

\* lines 76-82: i + 1 for the first line with 'HH MM SS' in it, 0 without one
ScanStart(text) ==
    IF \E i \in DOMAIN text : text[i].marker
    THEN CHOOSE i \in DOMAIN text :
             text[i].marker /\ \A j \in 1..(i - 1) : ~text[j].marker
    ELSE 0

\* header_lines after the scan: the lines passed before the break, every
\* line when the loop ends without a break
ScanHeader(text) ==
    IF ScanStart(text) = 0 THEN text ELSE SubSeq(text, 1, ScanStart(text) - 1)

InitParse ==
    /\ lines \in SeqsUpTo(MemberLines, MaxLines)
    /\ header_lines = << >>
    /\ data_start_line = 0
    /\ data_lines = << >>
    /\ line_no = 0
    /\ columns = NoLines
    /\ outside_data = {}
    /\ IdleDl
    /\ IdleRerun
    /\ IdleZip
    /\ IdleConv
    /\ IdleTables
    /\ IdleCal
    /\ IdleRun

\* lines 75-85: the scan for the column heading, and the slice after it
SplitHeader ==
    /\ line_no = 0
    /\ header_lines' = ScanHeader(lines)
    /\ data_start_line' = ScanStart(lines)
    /\ data_lines' =
          [k \in 1..(Len(lines) - ScanStart(lines)) |->
              lines[ScanStart(lines) + k].parts]
    /\ line_no' = 1
    /\ UNCHANGED <<lines, columns, outside_data, dlVars, rerunVars, zipVars, convVars,
                   tabVars, calVars, runVars>>

\* one iteration of `for line in data_lines`
ParseLine ==
    /\ line_no \in DOMAIN data_lines
    /\ columns' = ParseStep(columns, data_lines[line_no])
    /\ line_no' = line_no + 1
    /\ UNCHANGED <<lines, header_lines, data_start_line, data_lines, outside_data, dlVars, rerunVars, zipVars, convVars,
                   tabVars, calVars, runVars>>

NextParse == SplitHeader \/ ParseLine

SpecParse == InitParse /\ [][NextParse]_vars

-----------------------------------------------------------------------------
(* The export runs: shared data structures.                                *)
(*                                                                         *)
(* A frame that covers a whole day is kept run-length encoded: a sequence  *)
(* of segments in row order, each either one data row ("row") or a run of  *)
(* consecutive seconds lo..hi that have one row each with missing values   *)
(* ("gap").  NRows counts the rows such a frame stands for.                *)

Periods == 86400
DoyFirst == 130
NumDoys == 2
MaxZips == 2

Stations == << "abc" >>

\* the station-days in the order the loops visit them
Units ==
    [i \in 1..(Len(Stations) * NumDoys) |->
        [station |-> Stations[((i - 1) \div NumDoys) + 1],
         doy     |-> DoyFirst + ((i - 1) % NumDoys)]]

Closed == [open |-> FALSE, path |-> << >>, header |-> FALSE, lines |-> << >>]

Sample(hh, mm, ss, raw) == [hh |-> hh, mm |-> mm, ss |-> ss, raw |-> raw]

RawA == << R(100), R(2), R(300) >>
RawB == << R(-7), R(5), R(0) >>

\* the parsed data lines of the archive members the bounded runs read
MemberSamples ==
    { << >>,
      << Sample(0, 0, 0, RawA) >>,
      << Sample(0, 0, 1, RawB) >>,
      << Sample(23, 59, 59, RawB), Sample(0, 0, 0, RawB) >>,
      << Sample(0, 0, 0, RawA), Sample(24, 0, 0, RawA) >> }

\* datetime.strptime(f"{h}:{m}:{s}", '%H:%M:%S') raises ValueError outside
\* these ranges
ValidTime(s) == s.hh \in 0..23 /\ s.mm \in 0..59 /\ s.ss \in 0..59

SecOfDay(s) == s.hh * 3600 + s.mm * 60 + s.ss

\* datetime.combine(day, time): seconds since the start of day number 0
Timestamp(d, s) == d * 86400 + SecOfDay(s)

\* F = sqrt(H^2 + (H tan(radians(D/60)))^2 + Z^2): kept as a term in H, D, Z
TotalField(H, D, Z) == << "F", H, D, Z >>

\* only the first frame of the list
Concat_First(frames) ==
    IF frames = << >> THEN << >> ELSE Head(frames)

RECURSIVE Concat(_)
Concat(frames) ==
    IF frames = << >> THEN << >> ELSE Head(frames) \o Concat(Tail(frames))

MinTime(df, rest) ==
    CHOOSE t \in { df[i].time : i \in rest } :
        \A i \in rest : t <= df[i].time

\* DataFrame.sort_values("time") uses numpy's quicksort, which is not
\* stable: the order of rows with equal time is fixed by the build, not by
\* the code.  ties = "keep" leaves them in input order, "reverse" reverses
\* them.
RECURSIVE SortOrder(_, _, _)
SortOrder(df, rest, ties) ==
    IF rest = {} THEN << >>
    ELSE LET firsts == { i \in rest : df[i].time = MinTime(df, rest) }
             i == CHOOSE j \in firsts :
                     \A k \in firsts : IF ties = "keep" THEN j <= k ELSE j >= k
         IN  << df[i] >> \o SortOrder(df, rest \ {i}, ties)

sort_values(df, ties) == SortOrder(df, DOMAIN df, ties)

\* the order a left merge on a sorted key column gives the right frame's
\* rows: by key, rows of equal key in the right frame's order
RECURSIVE MergeOrder(_, _)
MergeOrder(df, rest) ==
    IF rest = {} THEN << >>
    ELSE LET firsts == { i \in rest : df[i].time = MinTime(df, rest) }
             i == CHOOSE j \in firsts : \A k \in firsts : j <= k
         IN  << df[i] >> \o MergeOrder(df, rest \ {i})

Gap(lo, hi) ==
    IF lo > hi THEN << >> ELSE << [kind |-> "gap", lo |-> lo, hi |-> hi] >>

RECURSIVE Frame(_, _, _)
Frame(rows, from, last) ==
    IF rows = << >> THEN Gap(from, last)
    ELSE LET t == Head(rows).time
         IN  Gap(from, t - 1)
             \o << [kind |-> "row", row |-> Head(rows)] >>
             \o Frame(Tail(rows), IF t + 1 > from THEN t + 1 ELSE from, last)

\* pd.DataFrame({"time": pd.date_range(start=day, periods=86400, freq='s')})
\*   .merge(df, how="left", on="time"): one row per grid second without a
\* match, and one row per matching row of df for a second with matches; rows
\* of df whose time is not on the grid match nothing.
merge(start, periods, df) ==
    LET first == Timestamp(start, Sample(0, 0, 0, << >>))
        last == first + periods - 1
        on_grid == SelectSeq(df, LAMBDA r : first <= r.time /\ r.time <= last)
    IN  Frame(MergeOrder(on_grid, DOMAIN on_grid), first, last)

RECURSIVE NRows(_)
NRows(frame) ==
    IF frame = << >> THEN 0
    ELSE (IF Head(frame).kind = "gap"
          THEN Head(frame).hi - Head(frame).lo + 1 ELSE 1)
         + NRows(Tail(frame))

-----------------------------------------------------------------------------
(* magnetometer_to_iaga (magnetometer-converter.py).                       *)

Sentinel == "99999.999999"

\* f"{v:.6f}": v rounded to 6 decimals (half to even), in millionths
Fmt6(v) ==
    LET q == (v[1] * 1000000) \div v[2]
        r == (v[1] * 1000000) % v[2]
    IN  [millionths |->
           IF 2 * r > v[2] THEN q + 1
           ELSE IF 2 * r = v[2] /\ q % 2 = 1 THEN q + 1
           ELSE q]

\* the data lines of the IAGA file for a merged frame
DataLines(merged) ==
    [k \in DOMAIN merged |->
        IF merged[k].kind = "gap"
        THEN [kind |-> "gap", lo |-> merged[k].lo, hi |-> merged[k].hi,
              h_val |-> Sentinel, d_val |-> Sentinel,
              z_val |-> Sentinel, f_val |-> Sentinel]
        ELSE [kind |-> "row", lo |-> merged[k].row.time, hi |-> merged[k].row.time,
              h_val |-> Fmt6(merged[k].row.H), d_val |-> Fmt6(merged[k].row.D),
              z_val |-> Fmt6(merged[k].row.Z),
              f_val |-> [millionths_of |-> merged[k].row.F]]]

\* str.lower() on the characters that occur in member names
LowerChar(c) ==
    CASE c = "A" -> "a" [] c = "B" -> "b" [] c = "C" -> "c" [] c = "S" -> "s"
      [] c = "X" -> "x" [] c = "Y" -> "y" [] c = "Z" -> "z" [] OTHER -> c

IsDigit(c) == c \in { "0", "1", "2", "3", "4", "5", "6", "7", "8", "9" }

\* os.path.basename(zip_path)[0:3].lower(), character by character
StationChars(station_code) ==
    CASE station_code = "abc" -> << "a", "b", "c" >>

\* re.search accepts any name
FilenameMatch_Any(station_chars, filename) == TRUE

\* re.search(fr"({station_code}\d{{3}}\d{{2}})\.\d{{2}}s", filename, re.IGNORECASE):
\* the pattern anywhere in the name, letters compared without case
FilenameMatch(station_chars, filename) ==
    \E k \in 0..(Len(filename) - 12) :
        /\ \A i \in 1..3 : LowerChar(filename[k + i]) = station_chars[i]
        /\ \A i \in 4..8 : IsDigit(filename[k + i])
        /\ filename[k + 9] = "."
        /\ \A i \in 10..11 : IsDigit(filename[k + i])
        /\ LowerChar(filename[k + 12]) = "s"

\* filename.split('.')[-1]
AfterLastDot(filename) ==
    LET dots == { i \in DOMAIN filename : filename[i] = "." }
    IN  IF dots = {} THEN filename
        ELSE SubSeq(filename,
                    (CHOOSE i \in dots : \A j \in dots : j <= i) + 1,
                    Len(filename))

\* int('20' + filename.split('.')[-1][:2]) returns
YearParses(filename) ==
    \A i \in 1..2 :
        i <= Len(AfterLastDot(filename)) => IsDigit(AfterLastDot(filename)[i])

\* lines 123-148 of read_text_file_from_zip raise ValueError
NameRaises(station_chars, filename) ==
    \/ ~FilenameMatch(station_chars, filename)
    \/ ~YearParses(filename)

\* member names: abc13012.24s, ABC13012.24S, xyz13012.24s, abc1301.24s and
\* abc13012.24s.x1
GoodName == << "a", "b", "c", "1", "3", "0", "1", "2", ".", "2", "4", "s" >>
UpperName == << "A", "B", "C", "1", "3", "0", "1", "2", ".", "2", "4", "S" >>
OtherStationName == << "x", "y", "z", "1", "3", "0", "1", "2", ".", "2", "4", "s" >>
ShortName == << "a", "b", "c", "1", "3", "0", "1", ".", "2", "4", "s" >>
SuffixedName == GoodName \o << ".", "x", "1" >>

\* the inputs one archive can present
Archives ==
    { [kind |-> "nomember", name |-> << >>, samples |-> << >>],
      [kind |-> "badname", name |-> OtherStationName, samples |-> << >>] }
    \cup { [kind |-> "ok", name |-> GoodName, samples |-> m] : m \in MemberSamples }

RunCalDates == { DoyFirst, DoyFirst + 1 }

\* hour_df: the converted samples of one archive
HourFrame(day_datetime, samples, slope, scaling) ==
    [k \in DOMAIN samples |->
        LET hdz == convert_to_hdz(slope, scaling, samples[k].raw)
        IN  [time |-> Timestamp(day_datetime, samples[k]),
             H |-> hdz[1], D |-> hdz[2], Z |-> hdz[3],
             F |-> TotalField(hdz[1], hdz[2], hdz[3])]]

\* create_iaga_header(station_code, date, STATION_COORDINATES.get(station_code)):
\* for a station without a row the default record has no 'mag_latitude' key
\* and the header raises KeyError.
\* the keys of a record load_station_coordinates builds
LoadedStationInfo ==
    { "longitude", "latitude", "mag_longitude", "mag_latitude", "l_shell",
      "name", "deactivated" }

\* the keys of the fallback record of create_iaga_header
DefaultStationInfo == { "longitude", "latitude", "name" }

\* the keys create_iaga_header reads from station_info
HeaderKeys ==
    { "longitude", "latitude", "mag_latitude", "mag_longitude", "l_shell",
      "name" }

create_iaga_header(station_code) ==
    LET station_info ==
            IF station_code \in STATION_COORDINATES
            THEN LoadedStationInfo ELSE DefaultStationInfo
    IN  [raised |-> ~(HeaderKeys \subseteq station_info),
         code |-> Upper(station_code)]

\* f"{output_path}/{station_code}/{year}/{station_code.lower()}{date_str}psec.sec"
iaga_file_path(u) == << Units[u].station, Units[u].doy, "psec.sec" >>

\* open(path, 'a'): what the file holds is kept
open_a(old) == old

\* open(path, 'w') on a file whose data lines were old: the file is truncated
open_w(old) == << >>

\* a day of the requested year that range(130, 138) never reaches
OutsideDoys == { DoyFirst - 1 }

InitRun ==
    /\ scaling_factors \in { << ScalingRow("ABC", d) >> : d \in RunCalDates }
    /\ slope_factors \in { << SlopeRow("ABC", d) >> : d \in RunCalDates }
    /\ STATION_COORDINATES \in SUBSET { Stations[i] : i \in DOMAIN Stations }
    /\ pc = "glob"
    /\ unit = 1
    /\ zip_files = 0
    /\ zi = 0
    /\ day_data = << >>
    /\ csv_day = 0
    /\ files = [u \in DOMAIN Units |-> "none"]
    /\ out_file = Closed
    /\ sort_ties \in { "keep", "reverse" }
    /\ log = << >>
    /\ outside_data \in SUBSET OutsideDoys
    /\ IdleDl
    /\ IdleRerun
    /\ IdleZip
    /\ IdleParse
    /\ IdleConv
    /\ IdleCal

\* the next iteration of the station / day-of-year loops, or the end of the run
NextUnit ==
    IF unit < Len(Units)
    THEN unit' = unit + 1 /\ pc' = "glob"
    ELSE unit' = unit /\ pc' = "done"

\* lines 239-255: glob the archives of the station-day; none: next day
\* n is the number of archives glob finds
GlobStep(n) ==
    /\ pc = "glob"
    /\ IF n = 0
       THEN /\ NextUnit
            /\ UNCHANGED <<zip_files, zi, day_data>>
       ELSE /\ zip_files' = n
            /\ zi' = 1
            /\ day_data' = << >>
            /\ pc' = "zip"
            /\ unit' = unit
    /\ out_file' = Closed
    /\ UNCHANGED <<STATION_COORDINATES, csv_day, files, sort_ties, log,
                   tabVars, outside_data, dlVars, zipVars, parseVars, convVars, calVars>>

GlobDay ==
    /\ \E n \in 0..MaxZips : GlobStep(n)
    /\ UNCHANGED rerunVars

\* lines 257-325: one iteration of the loop over sorted(zip_files)
\* a is the archive sorted(zip_files)[zi]
ZipStep(a) ==
    /\ pc = "zip"
    /\    LET stationcode == Units[unit].station
              day_datetime == Units[unit].doy
              filtered_scaling ==
                  mask_scaling(scaling_factors, day_datetime, Upper(stationcode))
              filtered_slope ==
                  mask_slope(slope_factors, day_datetime, Upper(stationcode))
              entry(outcome) == [unit |-> unit, zip |-> zi, outcome |-> outcome]
          IN  IF a.kind = "nomember"
              THEN \* get_zip_file_contents raised
                   /\ log' = Append(log, entry("ERROR"))
                   /\ day_data' = day_data
              ELSE IF NameRaises(StationChars(stationcode), a.name)
              THEN \* read_text_file_from_zip raised
                   /\ log' = Append(log, entry("ERROR"))
                   /\ day_data' = day_data
              ELSE IF filtered_scaling = {} \/ filtered_slope = {}
              THEN \* print and continue: nothing is logged
                   /\ log' = log
                   /\ day_data' = day_data
              ELSE IF \E k \in DOMAIN a.samples : ~ValidTime(a.samples[k])
              THEN \* strptime raised ValueError
                   /\ log' = Append(log, entry("ERROR"))
                   /\ day_data' = day_data
              ELSE /\ day_data' =
                        Append(day_data,
                               HourFrame(day_datetime, a.samples,
                                         slope_factors[ILocLast(filtered_slope)],
                                         scaling_factors[ILocLast(filtered_scaling)]))
                   /\ log' = Append(log, entry("OK"))
    /\ IF zi < zip_files
       THEN zi' = zi + 1 /\ pc' = "zip"
       ELSE zi' = zi /\ pc' = "assemble"
    /\ UNCHANGED <<STATION_COORDINATES, unit, zip_files, csv_day, files,
                   out_file, sort_ties, tabVars, outside_data, dlVars, zipVars,
                   parseVars, convVars, calVars>>

ProcessZip ==
    /\ \E a \in Archives : ZipStep(a)
    /\ UNCHANGED rerunVars

\* lines 327-365: concatenate, sort, merge with the grid, write the file
\* old is the list of data lines the output file holds before it is opened
AssembleStep(old) ==
    /\ pc = "assemble"
    /\ IF day_data # << >>
       THEN LET day_df == sort_values(Concat(day_data), sort_ties)
                merged_df == merge(Units[unit].doy, Periods, day_df)
                header == create_iaga_header(Units[unit].station)
            IN  IF header.raised
                THEN \* open(..., 'w') created the file; the exception leaves
                     \* magnetometer_to_iaga
                     /\ files' = [files EXCEPT ![unit] = "empty"]
                     /\ out_file' = [open |-> TRUE,
                                     path |-> iaga_file_path(unit),
                                     header |-> FALSE, lines |-> open_w(old)]
                     /\ pc' = "aborted"
                     /\ unit' = unit
                ELSE /\ files' = [files EXCEPT ![unit] = "written"]
                     /\ out_file' = [open |-> TRUE,
                                     path |-> iaga_file_path(unit),
                                     header |-> TRUE,
                                     lines |-> open_w(old) \o DataLines(merged_df)]
                     /\ NextUnit
       ELSE /\ files' = files
            /\ out_file' = out_file
            /\ NextUnit
    /\ UNCHANGED <<STATION_COORDINATES, zip_files, zi, day_data, csv_day,
                   sort_ties, log, tabVars, outside_data, dlVars, zipVars, parseVars,
                   convVars, calVars>>

\* a first run on an empty output tree: no output file exists beforehand
AssembleDay ==
    /\ AssembleStep(<< >>)
    /\ UNCHANGED rerunVars

Next == GlobDay \/ ProcessZip \/ AssembleDay

Spec == InitRun /\ [][Next]_vars

-----------------------------------------------------------------------------
(* magnetometer_to_iaga run twice over the same input tree and into the   *)
(* same output tree.  The archives of each station-day are fixed when the  *)
(* first run starts, and the body of every output file is kept.            *)

NoMember == [kind |-> "nomember", name |-> << >>, samples |-> << >>]
OkMember(samples) == [kind |-> "ok", name |-> GoodName, samples |-> samples]
Member(name, samples) == [kind |-> "named", name |-> name, samples |-> samples]

\* what the directory of one station-day holds, in sorted order
DiskDays ==
    { d \in { << >>,
              << OkMember(<< Sample(0, 0, 0, RawA) >>) >>,
              << NoMember, OkMember(<< Sample(0, 0, 1, RawB) >>) >>,
              << OkMember(<< Sample(0, 0, 0, RawA) >>),
                 OkMember(<< Sample(23, 59, 59, RawB), Sample(0, 0, 0, RawB) >>) >>,
              << Member(ShortName, << Sample(0, 0, 0, RawA) >>),
                 Member(UpperName, << Sample(0, 0, 1, RawB) >>) >>,
              << Member(SuffixedName, << Sample(0, 0, 0, RawA) >>) >> } :
        Len(d) <= MaxZips }

NoFile == [header |-> FALSE, lines |-> << >>]

InitRerun ==
    /\ scaling_factors \in { << ScalingRow("ABC", d) >> : d \in RunCalDates }
    /\ slope_factors \in { << SlopeRow("ABC", d) >> : d \in RunCalDates }
    /\ STATION_COORDINATES \in SUBSET { Stations[i] : i \in DOMAIN Stations }
    /\ pc = "glob"
    /\ unit = 1
    /\ zip_files = 0
    /\ zi = 0
    /\ day_data = << >>
    /\ csv_day = 0
    /\ files = [u \in DOMAIN Units |-> "none"]
    /\ out_file = Closed
    /\ sort_ties \in { "keep", "reverse" }
    /\ log = << >>
    /\ outside_data = {}
    /\ IdleDl
    /\ disk \in [DOMAIN Units -> DiskDays]
    /\ contents = [u \in DOMAIN Units |-> NoFile]
    /\ run = 1
    /\ first_run = NoRun
    /\ IdleZip
    /\ IdleParse
    /\ IdleConv
    /\ IdleCal

GlobDayRerun ==
    /\ GlobStep(Len(disk[unit]))
    /\ UNCHANGED rerunVars

ProcessZipRerun ==
    /\ ZipStep(disk[unit][zi])
    /\ UNCHANGED rerunVars

\* the with open(...) block leaves the file as out_file describes it
AssembleDayRerun ==
    /\ AssembleStep(contents[unit].lines)
    /\ contents' =
          IF day_data # << >>
          THEN [contents EXCEPT ![unit] =
                   [header |-> out_file'.header, lines |-> out_file'.lines]]
          ELSE contents
    /\ UNCHANGED <<disk, run, first_run>>

\* the script is started again: the run log is opened with 'w', the loops
\* start over, the input and output trees are as the first run left them
SecondRun ==
    /\ run = 1
    /\ pc \in { "done", "aborted" }
    /\ run' = 2
    /\ first_run' = [files |-> files, contents |-> contents]
    /\ pc' = "glob"
    /\ unit' = 1
    /\ zip_files' = 0
    /\ zi' = 0
    /\ day_data' = << >>
    /\ out_file' = Closed
    /\ log' = << >>
    /\ UNCHANGED <<STATION_COORDINATES, csv_day, files, sort_ties, disk,
                   contents, outside_data, dlVars, zipVars, parseVars, tabVars,
                   convVars, calVars>>

NextRerun == GlobDayRerun \/ ProcessZipRerun \/ AssembleDayRerun \/ SecondRun

SpecRerun == InitRerun /\ [][NextRerun]_vars

-----------------------------------------------------------------------------
(* The export loop of process_embrace_data.py, with the archive readers of *)
(* deal_with_zip_files.py.  Its control states carry the prefix "csv_".    *)

CsvDoyFirst == 1
PeriodsCsv == 86400
EmptyDayPeriods == 86400

\* the script loops over the day of year first, then over the stations
UnitsCsv ==
    [i \in 1..(Len(Stations) * NumDoys) |->
        [station |-> Stations[((i - 1) % Len(Stations)) + 1],
         doy     |-> CsvDoyFirst + ((i - 1) \div Len(Stations))]]

CsvUnitOf(station, d) ==
    CHOOSE u \in DOMAIN UnitsCsv :
        UnitsCsv[u].station = station /\ UnitsCsv[u].doy = d

CsvCalDates == { CsvDoyFirst, CsvDoyFirst + 1 }

\* the station code is the first three characters of the member name as
\* they are; the day of the year is read from the member's first line
ArchivesCsv(doy) ==
    { [kind |-> "empty", stationcode |-> "", day_of_the_year |-> 0,
       samples |-> << >>],
      [kind |-> "unreadable", stationcode |-> "", day_of_the_year |-> 0,
       samples |-> << >>] }
    \cup { [kind |-> "ok", stationcode |-> c, day_of_the_year |-> d,
            samples |-> m] :
           c \in { "abc", "ABC" }, d \in { doy, CsvDoyFirst },
           m \in MemberSamples }

\* maskscaling / mask_slope of the script
maskscaling_csv(table, d, stationcode) ==
    { i \in DOMAIN table :
        /\ table[i].valid_from_date <= d
        /\ table[i].Station_code = stationcode }

mask_slope_csv(table, d, stationcode) ==
    { i \in DOMAIN table :
        /\ table[i].Valid_from <= d
        /\ table[i].station_code = stationcode }

\* hourDataframe
HourFrameCsv(d, samples, slope, scaling) ==
    [k \in DOMAIN samples |->
        LET hdz == convert_to_hdz_csv(slope, scaling, samples[k].raw)
        IN  [time |-> Timestamp(d, samples[k]),
             H |-> hdz[1], D |-> hdz[2], Z |-> hdz[3]]]

\* DataFrame.to_csv: a missing value is written as an empty field
CsvLines(merged) ==
    [k \in DOMAIN merged |->
        IF merged[k].kind = "gap"
        THEN [kind |-> "gap", lo |-> merged[k].lo, hi |-> merged[k].hi,
              H |-> "", D |-> "", Z |-> ""]
        ELSE [kind |-> "row", lo |-> merged[k].row.time, hi |-> merged[k].row.time,
              H |-> merged[k].row.H, D |-> merged[k].row.D,
              Z |-> merged[k].row.Z]]

\* a day file that holds one second less than the day
EmptyDay_Short(d) ==
    Frame(<< >>, Timestamp(d, Sample(0, 0, 0, << >>)),
          Timestamp(d, Sample(0, 0, 0, << >>)) + EmptyDayPeriods - 2)

\* lines 101-103: the grid of the day with H, D and Z all NaN
EmptyDay(d) ==
    Frame(<< >>, Timestamp(d, Sample(0, 0, 0, << >>)),
          Timestamp(d, Sample(0, 0, 0, << >>)) + EmptyDayPeriods - 1)

csv_file_path(station, d) == << station, d, "_s.csv" >>

InitCsv ==
    /\ scaling_factors \in { << ScalingRow("ABC", d) >> : d \in CsvCalDates }
    /\ slope_factors \in { << SlopeRow("ABC", d) >> : d \in CsvCalDates }
    /\ STATION_COORDINATES = {}
    /\ pc = "csv_glob"
    /\ unit = 1
    /\ zip_files = 0
    /\ zi = 0
    /\ day_data = << >>
    /\ csv_day = 0
    /\ files = [u \in DOMAIN UnitsCsv |-> "none"]
    /\ out_file = Closed
    /\ sort_ties = "keep"
    /\ log = << >>
    /\ IdleConv
    /\ IdleCal
    /\ IdleExt

NextUnitCsv ==
    IF unit < Len(UnitsCsv)
    THEN unit' = unit + 1 /\ pc' = "csv_glob"
    ELSE unit' = unit /\ pc' = "csv_done"

\* lines 53-55 and 110-112: glob the archives of the station-day
GlobDayCsv ==
    /\ pc = "csv_glob"
    /\ \E n \in 0..MaxZips :
          IF n = 0
          THEN /\ csv_day' = UnitsCsv[unit].doy
               /\ NextUnitCsv
               /\ UNCHANGED <<zip_files, zi, day_data>>
          ELSE /\ zip_files' = n
               /\ zi' = 1
               /\ day_data' = << >>
               /\ pc' = "csv_zip"
               /\ UNCHANGED <<unit, csv_day>>
    /\ out_file' = Closed
    /\ UNCHANGED <<STATION_COORDINATES, files, sort_ties, log,
                   tabVars, extVars, convVars, calVars>>

\* lines 56-88: one iteration of the loop over sorted(inner_files)
ProcessZipCsv ==
    /\ pc = "csv_zip"
    /\ \E a \in ArchivesCsv(UnitsCsv[unit].doy) :
          LET d == a.day_of_the_year
              filtered_scaling ==
                  maskscaling_csv(scaling_factors, d, a.stationcode)
              filtered_slope ==
                  mask_slope_csv(slope_factors, d, a.stationcode)
              entry(outcome) == [unit |-> unit, zip |-> zi, outcome |-> outcome]
          IN  IF a.kind # "ok"
              THEN \* read_text_file_from_zip raised before `day` was assigned
                   /\ log' = Append(log, entry("ERROR"))
                   /\ day_data' = day_data
                   /\ csv_day' = csv_day
              ELSE IF \/ filtered_scaling = {} \/ filtered_slope = {}
                      \/ \E k \in DOMAIN a.samples : ~ValidTime(a.samples[k])
              THEN \* iloc[-1] raised IndexError, or strptime ValueError
                   /\ log' = Append(log, entry("ERROR"))
                   /\ day_data' = day_data
                   /\ csv_day' = d
              ELSE /\ day_data' =
                        Append(day_data,
                               HourFrameCsv(d, a.samples,
                                            slope_factors[ILocLast(filtered_slope)],
                                            scaling_factors[ILocLast(filtered_scaling)]))
                   /\ log' = Append(log, entry("ok"))
                   /\ csv_day' = d
    /\ IF zi < zip_files
       THEN zi' = zi + 1 /\ pc' = "csv_zip"
       ELSE zi' = zi /\ pc' = "csv_assemble"
    /\ UNCHANGED <<STATION_COORDINATES, unit, zip_files, files, out_file,
                   sort_ties, tabVars, extVars, convVars, calVars>>

\* lines 90-108: merge with the grid and save, or save an all-missing day
AssembleDayCsv ==
    /\ pc = "csv_assemble"
    /\ IF day_data # << >>
       THEN LET daydata == Concat(day_data)
                merged == merge(csv_day, PeriodsCsv, daydata)
            IN  /\ files' = [files EXCEPT
                               ![CsvUnitOf(UnitsCsv[unit].station, csv_day)] =
                                   "written"]
                /\ out_file' = [open |-> TRUE,
                                path |-> csv_file_path(UnitsCsv[unit].station,
                                                       csv_day),
                                header |-> TRUE, lines |-> CsvLines(merged)]
                /\ csv_day' = csv_day
       ELSE /\ csv_day' = UnitsCsv[unit].doy
            /\ files' = [files EXCEPT ![unit] = "written"]
            /\ out_file' = [open |-> TRUE,
                            path |-> csv_file_path(UnitsCsv[unit].station,
                                                   UnitsCsv[unit].doy),
                            header |-> TRUE,
                            lines |-> CsvLines(EmptyDay(UnitsCsv[unit].doy))]
    /\ NextUnitCsv
    /\ UNCHANGED <<STATION_COORDINATES, zip_files, zi, day_data,
                   sort_ties, log, tabVars, extVars, convVars, calVars>>

NextCsv == GlobDayCsv \/ ProcessZipCsv \/ AssembleDayCsv

SpecCsv == InitCsv /\ [][NextCsv]_vars

-----------------------------------------------------------------------------
(* Properties of calibration resolution (SpecCal).                         *)

ScalingKeys == [i \in DOMAIN scaling_factors |->
                  [st |-> scaling_factors[i].Station_code,
                   d  |-> scaling_factors[i].valid_from_date]]

SlopeKeys == [i \in DOMAIN slope_factors |->
                [st |-> slope_factors[i].station_code,
                 d  |-> slope_factors[i].Valid_from]]

Eligible(keys, st, day) ==
    { i \in DOMAIN keys : keys[i].st = st /\ keys[i].d <= day }

\* row i is the station's row with the latest effective-from date not after
\* day, and the last-listed one of the rows with that date
IsLatest(keys, st, day, i) ==
    /\ i \in Eligible(keys, st, day)
    /\ \A j \in Eligible(keys, st, day) :
          /\ keys[j].d <= keys[i].d
          /\ (keys[j].d = keys[i].d => j <= i)

\* C3: a lookup that resolves returns, from each table independently, the
\* station's row with the maximum effective-from date <= the target date
\* (the last-listed one on a tie), whatever the row order of the table.
C3_LatestRowResolved ==
    cal_pc = "done" =>
        /\ IsLatest(ScalingKeys, Upper(cal_station), cal_last.day, cal_last.scaling)
        /\ IsLatest(SlopeKeys, Upper(cal_station), cal_last.day, cal_last.slope)

\* C4: for two lookups of the same station on the same tables with target
\* dates d1 < d2 that both resolve, the row resolved for d2 has an
\* effective-from date >= that of the row resolved for d1, in each table.
C4_Monotonic ==
    cal_prev.day < cal_last.day =>
        /\ (cal_prev.scaling > 0 /\ cal_last.scaling > 0 =>
               ScalingKeys[cal_last.scaling].d >= ScalingKeys[cal_prev.scaling].d)
        /\ (cal_prev.slope > 0 /\ cal_last.slope > 0 =>
               SlopeKeys[cal_last.slope].d >= SlopeKeys[cal_prev.slope].d)

\* two resolving lookups d1 < d2, the later one resolving a row with a
\* strictly later effective-from date in both tables
C4_Witness ==
    /\ cal_pc = "done"
    /\ cal_prev.day > 0
    /\ cal_prev.day < cal_last.day
    /\ cal_prev.scaling > 0 /\ cal_prev.slope > 0
    /\ ScalingKeys[cal_last.scaling].d > ScalingKeys[cal_prev.scaling].d
    /\ SlopeKeys[cal_last.slope].d > SlopeKeys[cal_prev.slope].d

-----------------------------------------------------------------------------
(* Properties of the unit converter (SpecConv).                            *)

NonZeroDenominators ==
    /\ conv_scaling.Hs[1] # 0
    /\ conv_scaling.Ds[1] # 0
    /\ conv_scaling.Zs[1] # 0
    /\ conv_scaling.Hb[1] # 0

\* the formulas as the specification groups them
FormulaH ==
    RAdd(RDiv(RAdd(RAdd(RMul(conv_raw[1], conv_slope.LS), conv_slope.LO),
                   conv_slope.H),
              conv_scaling.Hs),
         conv_scaling.Hb)

FormulaD ==
    RAdd(RMul(RMul(RDiv(RAdd(RAdd(RMul(conv_raw[2], conv_slope.LS), conv_slope.LO),
                             conv_slope.D),
                        conv_scaling.Ds),
                   RDiv(R(1), conv_scaling.Hb)),
              RDiv(R(3438), R(60))),
         conv_scaling.Db)

FormulaZ ==
    RAdd(RDiv(RAdd(RAdd(RMul(conv_raw[3], conv_slope.LS), conv_slope.LO),
                   conv_slope.Z),
              conv_scaling.Zs),
         conv_scaling.Zb)

\* C6: with non-zero denominators every copy of convert_to_hdz returns
\* H = ((raw_H*LS + LO + H_off)/Hs) + Hb,
\* D = (((raw_D*LS + LO + D_off)/Ds) * (1/Hb) * (3438/60)) + Db and
\* Z = ((raw_Z*LS + LO + Z_off)/Zs) + Zb, so the three copies agree.
C6_Formula ==
    (conv_by # "none" /\ NonZeroDenominators) =>
        conv_out = <<FormulaH, FormulaD, FormulaZ>>

\* a copy other than the converter's own ran with Hb # 1, a D offset and a
\* D scale, and produced a finite D
C6_Witness ==
    /\ conv_by = "process_embrace_data"
    /\ NonZeroDenominators
    /\ conv_scaling.Hb = R(3)
    /\ conv_scaling.Ds = R(5)
    /\ conv_slope.D = R(4)
    /\ conv_out[2] # Undef
    /\ conv_out[2] = FormulaD

Scenario7 ==
    /\ conv_by # "none"
    /\ conv_raw = <<R(100), R(200), R(300)>>
    /\ conv_slope = [LS |-> R(1), LO |-> R(0), H |-> R(0), D |-> R(0), Z |-> R(0)]
    /\ conv_scaling = [Hs |-> R(1), Hb |-> R(1), Ds |-> R(1), Db |-> R(0),
                       Zs |-> R(1), Zb |-> R(0)]

\* C7 as stated: the scenario raw=(100,200,300), LS=1, LO=0, offsets 0,
\* Hs=Ds=Zs=1, Hb=1, Db=Zb=0 yields H = 100 and D = 11460.
C7_Original ==
    Scenario7 => (conv_out[1] = R(100) /\ conv_out[2] = R(11460))

\* C7 amended: the same scenario yields H = 101 (the bias Hb = 1 is added)
\* and D = 11460.
C7_Scenario ==
    Scenario7 => (conv_out[1] = R(101) /\ conv_out[2] = R(11460))

\* the scenario has been converted by the converter script's copy
C7_Witness ==
    /\ Scenario7
    /\ conv_by = "magnetometer-converter"
    /\ conv_out = <<R(101), R(11460), R(300)>>

-----------------------------------------------------------------------------
(* Properties of the magnetometer_to_iaga run (Spec).                      *)

\* the data lines of out_file that carry a value for second t
LinesAt(t) ==
    { k \in DOMAIN out_file.lines :
        out_file.lines[k].kind = "row" /\ out_file.lines[k].lo = t }

\* the IAGA file of the station-day last assembled has been written in full
IagaWritten == out_file.open /\ out_file.header /\ pc \in { "glob", "done" }

\* C1: every assembled day has exactly 86,400 data lines, whether 0, 1 or
\* several hourly records contributed and whatever timestamps they carry.
C1_Original ==
    IagaWritten => NRows(out_file.lines) = 86400

\* the positions of the hourly records that hold a sample for time t
RecordsAt(t) ==
    { i \in DOMAIN day_data :
        \E a \in DOMAIN day_data[i] : day_data[i][a].time = t }

\* C2: when two hourly records of a station-day both hold a sample for the
\* same second, the assembled day has exactly one line for that second and
\* its value is the one of the later-processed record.
C2_Original ==
    IagaWritten =>
        \A i, j \in DOMAIN day_data :
            \A a \in DOMAIN day_data[i], b \in DOMAIN day_data[j] :
                (/\ i < j
                 /\ day_data[i][a].time = day_data[j][b].time
                 /\ \A m \in RecordsAt(day_data[j][b].time) : m <= j
                 /\ \A c \in DOMAIN day_data[j] :
                       day_data[j][c].time = day_data[j][b].time => c <= b)
                => /\ Cardinality(LinesAt(day_data[j][b].time)) = 1
                   /\ \A k \in LinesAt(day_data[j][b].time) :
                         /\ out_file.lines[k].h_val = Fmt6(day_data[j][b].H)
                         /\ out_file.lines[k].d_val = Fmt6(day_data[j][b].D)
                         /\ out_file.lines[k].z_val = Fmt6(day_data[j][b].Z)

\* the station-day has no eligible row in one of the calibration tables
NoCalibration(u) ==
    \/ Eligible(ScalingKeys, Upper(Units[u].station), Units[u].doy) = {}
    \/ Eligible(SlopeKeys, Upper(Units[u].station), Units[u].doy) = {}

\* C5: when no scaling row or no slope row is eligible for an hourly
\* record's station and date, that record alone is skipped: it adds no
\* samples, the loop goes on to the next archive of the day (or to the
\* assembly of the day after the last one), a day left without records is
\* followed by the next station-day, and the run is not aborted.
C5_SkipOnlyRecord ==
    [][ /\ (pc = "zip" /\ NoCalibration(unit)) =>
              /\ day_data' = day_data
              /\ unit' = unit
              /\ files' = files
              /\ (zi < zip_files => pc' = "zip" /\ zi' = zi + 1)
              /\ (zi = zip_files => pc' = "assemble")
        /\ (pc = "assemble" /\ NoCalibration(unit)) =>
              /\ day_data = << >>
              /\ (unit < Len(Units) => pc' = "glob" /\ unit' = unit + 1)
              /\ (unit = Len(Units) => pc' = "done")
      ]_vars

\* the first archive of a day without eligible calibration has been skipped
\* (nothing appended, nothing logged) and the loop stands at the second one
C5_Witness ==
    /\ pc = "zip"
    /\ unit = 1
    /\ zi = 2
    /\ NoCalibration(unit)
    /\ day_data = << >>
    /\ log = << >>

\* C8: for a station-day for which no archive is found the output file is
\* still written, with all 86,400 data rows carrying the missing sentinel.
C8_Original ==
    [][ (pc = "glob" /\ pc' # "zip") =>
            /\ files'[unit] = "written"
            /\ out_file'.open /\ out_file'.header
            /\ NRows(out_file'.lines) = 86400
            /\ \A k \in DOMAIN out_file'.lines :
                  /\ out_file'.lines[k].h_val = "99999.999999"
                  /\ out_file'.lines[k].d_val = "99999.999999"
                  /\ out_file'.lines[k].z_val = "99999.999999"
                  /\ out_file'.lines[k].f_val = "99999.999999"
      ]_vars

\* C10: no failure while processing an hourly record or a station-day,
\* building the header and writing the file included, aborts the run.
C10_Original == pc # "aborted"

-----------------------------------------------------------------------------
(* Properties of the process_embrace_data.py export (SpecCsv).             *)

\* the station-day whose file the latest save wrote
CsvSaved == IF pc = "csv_done" THEN unit ELSE unit - 1

\* C9: when archives exist for a station-day but none yields a usable
\* hourly record, the day's CSV is still written, with exactly 86,400 rows,
\* one per second of that calendar day, H, D and Z all missing, and the
\* loop goes on.
C9_EmptyDayCsv ==
    (out_file.open /\ day_data = << >>) =>
        /\ pc \in { "csv_glob", "csv_done" }
        /\ files[CsvSaved] = "written"
        /\ out_file.path = csv_file_path(UnitsCsv[CsvSaved].station,
                                         UnitsCsv[CsvSaved].doy)
        /\ NRows(out_file.lines) = 86400
        /\ Len(out_file.lines) = 1
        /\ \A k \in DOMAIN out_file.lines :
              /\ out_file.lines[k].kind = "gap"
              /\ out_file.lines[k].lo = UnitsCsv[CsvSaved].doy * 86400
              /\ out_file.lines[k].hi = UnitsCsv[CsvSaved].doy * 86400 + 86399
              /\ out_file.lines[k].H = ""
              /\ out_file.lines[k].D = ""
              /\ out_file.lines[k].Z = ""

\* two archives of the first station-day both failed and the all-missing
\* day has been saved
C9_Witness ==
    /\ out_file.open
    /\ day_data = << >>
    /\ zip_files = 2
    /\ log = << [unit |-> 1, zip |-> 1, outcome |-> "ERROR"],
                [unit |-> 1, zip |-> 2, outcome |-> "ERROR"] >>
    /\ files[1] = "written"


-----------------------------------------------------------------------------
(* Run log of magnetometer_to_iaga.                                        *)

LogEntriesOf(u) == { i \in DOMAIN log : log[i].unit = u }

\* C11: once the loop over the archives of a station-day has ended, the run
\* log holds exactly one entry, OK or ERROR, for each archive of that
\* station-day that was attempted.
C11_Original ==
    pc = "assemble" => Cardinality(LogEntriesOf(unit)) = zip_files

-----------------------------------------------------------------------------
(* Station metadata.                                                       *)

\* C12: for a station without a row in the station metadata table the
\* output file of a station-day with data is opened, given its header and
\* written.
C12_Original ==
    (out_file.open /\ Units[unit].station \notin STATION_COORDINATES)
        => (out_file.header /\ files[unit] = "written")

-----------------------------------------------------------------------------
(* Output files of a run.                                                  *)

HasFile(station, doy) ==
    \E u \in DOMAIN Units :
        /\ Units[u].station = station
        /\ Units[u].doy = doy
        /\ files[u] = "written"

\* C13: when the run has ended, every station-day of the requested year
\* with a usable hourly record has its output file: the station-days whose
\* archives were logged OK, and the days with a usable archive on disk.
C13_Original ==
    pc = "done" =>
        /\ \A i \in DOMAIN log :
              log[i].outcome = "OK" => files[log[i].unit] = "written"
        /\ \A d \in outside_data : HasFile(Stations[1], d)

-----------------------------------------------------------------------------
(* Order of the hourly records.                                            *)

\* no second has a sample in two of the hourly records
NoCollision(records) ==
    \A i, j \in DOMAIN records :
        i # j =>
            \A a \in DOMAIN records[i], b \in DOMAIN records[j] :
                records[i][a].time # records[j][b].time

\* lines 330-338 applied to a list of hourly frames
Assembled(records) ==
    merge(Units[unit].doy, Periods, sort_values(Concat(records), sort_ties))

\* C14: when the hourly records of a station-day have no second in common,
\* the merged day is the same for every order in which the records are
\* appended to day_data.
C14_OrderIndependent ==
    (pc = "assemble" /\ NoCollision(day_data)) =>
        \A p \in Permutations(DOMAIN day_data) :
            Assembled([i \in DOMAIN day_data |-> day_data[p[i]]])
                = Assembled(day_data)

\* two records without a common second, the later sample appended first
C14_Witness ==
    /\ pc = "assemble"
    /\ Len(day_data) = 2
    /\ NoCollision(day_data)
    /\ Len(day_data[1]) = 1
    /\ Len(day_data[2]) = 1
    /\ day_data[1][1].time > day_data[2][1].time
    /\ NRows(Assembled(day_data)) = 86400

-----------------------------------------------------------------------------
(* Member selection.                                                       *)

\* the name holds, somewhere, the two digits of the year and then S or s
HasYearMarker(name, year) ==
    \E k \in 1..(Len(name) - 2) :
        /\ name[k] = Digit((year \div 10) % 10)
        /\ name[k + 1] = Digit(year % 10)
        /\ name[k + 2] \in { "S", "s" }

\* the positions in file_list of the members that carry the year marker
Marked == { i \in DOMAIN file_list : HasYearMarker(file_list[i], zip_year) }

\* C15: get_zip_file_contents returns the first member in archive order
\* whose name contains the two-digit year followed by S or s, also when
\* several members match, and raises when no member matches, which
\* includes the archive without members.
C15_FirstMatch ==
    zip_contents.called =>
        IF Marked = {}
        THEN zip_contents.raised # ""
        ELSE /\ zip_contents.raised = ""
             /\ \E i \in Marked :
                   /\ zip_contents.member = file_list[i]
                   /\ \A j \in Marked : i <= j

\* two matching members after the call, the first of them returned, and the
\* marker not at the end of the returned name
C15_Witness ==
    /\ zip_contents.called
    /\ Cardinality(Marked) = 2
    /\ file_list[1] # file_list[2]
    /\ zip_contents.member = file_list[1]
    /\ zip_contents.member = << "2", "4", "s", "a" >>

-----------------------------------------------------------------------------
(* Running the conversion again.                                           *)

RunEnded == pc \in { "done", "aborted" }

\* C16: when the second run over unchanged inputs has ended, the output
\* tree holds the same files as after the first run and every file has the
\* same content as after the first run.
C16_Idempotent ==
    (run = 2 /\ RunEnded) =>
        /\ files = first_run.files
        /\ contents = first_run.contents

\* the second run has ended after rewriting a file that the first run wrote
\* with two lines for one second
C16_Witness ==
    /\ run = 2
    /\ pc = "done"
    /\ \E u \in DOMAIN Units :
          /\ files[u] = "written"
          /\ contents[u].header
          /\ \E k \in DOMAIN contents[u].lines :
                /\ k + 1 \in DOMAIN contents[u].lines
                /\ contents[u].lines[k].kind = "row"
                /\ contents[u].lines[k + 1].kind = "row"
                /\ contents[u].lines[k].lo = contents[u].lines[k + 1].lo

-----------------------------------------------------------------------------
(* Data lines of the IAGA file.                                            *)

\* the seconds of the day for which some hourly record holds a sample
Sampled ==
    UNION { { day_data[i][a].time : a \in DOMAIN day_data[i] } :
            i \in DOMAIN day_data }

\* C17: in a written file every second of the day without a sample has the
\* sentinel 99999.999999 in its H, D, Z and F fields, and the data lines
\* are one per second of the day, in ascending order of the second.
C17_Original ==
    IagaWritten =>
        LET written == out_file.lines
            day == out_file.path[2]
            first == Timestamp(day, Sample(0, 0, 0, << >>))
        IN  /\ \A k \in DOMAIN written :
                  IF written[k].kind = "gap"
                  THEN /\ written[k].h_val = Sentinel
                       /\ written[k].d_val = Sentinel
                       /\ written[k].z_val = Sentinel
                       /\ written[k].f_val = Sentinel
                       /\ \A t \in Sampled : t < written[k].lo \/ t > written[k].hi
                  ELSE written[k].lo \in Sampled
            /\ written # << >>
            /\ written[1].lo = first
            /\ written[Len(written)].hi = first + 86400 - 1
            /\ \A k \in 1..(Len(written) - 1) : written[k + 1].lo = written[k].hi + 1

-----------------------------------------------------------------------------
(* The channel lists of a parsed record.                                   *)

\* the loop over the data lines has ended
Parsed == line_no = Len(data_lines) + 1

\* C18: after the data lines have been parsed, the eight channel lists
\* have the same length.
C18_Original ==
    Parsed =>
        \A c, d \in DOMAIN columns : Len(columns[c]) = Len(columns[d])

\* a line with at least 6 tokens, integers in the three time fields and
\* numbers in every other field it has, up to the eighth
WellFormed(parts) ==
    /\ Len(parts) >= 6
    /\ \A i \in 1..3 : parts[i].lit = "int"
    /\ \A i \in 4..8 : i <= Len(parts) => parts[i].lit \in { "int", "dec" }

\* the field of column i of a well-formed line
FieldOf(parts, i) ==
    IF i <= 3 THEN parts[i].val
    ELSE IF i <= Len(parts)
         THEN (IF parts[i].lit = "int" THEN R(parts[i].val)
               ELSE Norm(parts[i].val[1], parts[i].val[2]))
         ELSE Undef

\* C19: after the data lines have been parsed, every channel list holds
\* the fields of the well-formed lines, in input order, and nothing else:
\* a line that is too short or has a token that does not parse adds nothing.
C19_Original ==
    Parsed =>
        LET kept == SelectSeq(data_lines, WellFormed)
        IN  \A i \in DOMAIN ColumnNames :
                columns[ColumnNames[i]] =
                    [k \in DOMAIN kept |-> FieldOf(kept[k], i)]

-----------------------------------------------------------------------------
(* Samples with an invalid time of day.                                    *)

ValidSamples(a) == { k \in DOMAIN a.samples : ValidTime(a.samples[k]) }

\* readable archives that hold a sample with a valid time and one without
MixedMembers ==
    { a \in Archives :
        /\ a.kind = "ok"
        /\ ValidSamples(a) # {}
        /\ ValidSamples(a) # DOMAIN a.samples }

\* C20: when an hourly record with calibration holds a sample whose
\* hh:mm:ss is not a second of the day, the step that processes the record
\* still appends a frame with the record's other samples.
C20_Original ==
    [][\A a \in MixedMembers :
          (ZipStep(a) /\ ~NoCalibration(unit)) =>
              /\ Len(day_data') = Len(day_data) + 1
              /\ { day_data'[Len(day_data')][k].time :
                      k \in DOMAIN day_data'[Len(day_data')] }
                   = { Timestamp(Units[unit].doy, a.samples[k]) :
                         k \in ValidSamples(a) }]_vars

-----------------------------------------------------------------------------
(* Header lines and data lines of a member.                                *)

\* the scan for 'HH MM SS' and the slice have been done
Scanned == line_no >= 1

\* the positions in lines of the lines that are parsed as data lines
ParsedAsData == { i \in DOMAIN lines : i > data_start_line }

\* the positions in lines of the lines kept in header_lines
KeptAsHeader == 1..Len(header_lines)

\* the positions before the first line that contains 'HH MM SS'
BeforeMarker ==
    { i \in DOMAIN lines : \A j \in 1..i : ~lines[j].marker }

\* C21: header_lines holds exactly the lines before the first line that
\* contains 'HH MM SS', the data lines all come after that line, and no line
\* is both kept as a header line and parsed as a data line.
C21_Original ==
    Scanned =>
        /\ header_lines = [i \in BeforeMarker |-> lines[i]]
        /\ \A i \in ParsedAsData : \E j \in 1..(i - 1) : lines[j].marker
        /\ KeptAsHeader \cap ParsedAsData = {}

-----------------------------------------------------------------------------
(* Member names.                                                           *)

\* name[k+1..k+n] are digits
DigitsAt(name, k, n) ==
    \A i \in 1..n :
        name[k + i] \in { "0", "1", "2", "3", "4", "5", "6", "7", "8", "9" }

\* name[k+1..k+3] spell the station code abc, in either case
StationAt(name, k) ==
    /\ name[k + 1] \in { "a", "A" }
    /\ name[k + 2] \in { "b", "B" }
    /\ name[k + 3] \in { "c", "C" }

\* the name is <station><3 digits><2 digits>.<2 digits>s, with the station
\* in either case
IsPatternName(name) ==
    /\ Len(name) = 12
    /\ StationAt(name, 0)
    /\ DigitsAt(name, 3, 5)
    /\ name[9] = "."
    /\ DigitsAt(name, 9, 2)
    /\ name[12] = "s"

\* the name holds the pattern somewhere, with station and s in either case
HoldsPattern(name) ==
    \E k \in 0..(Len(name) - 12) :
        /\ StationAt(name, k)
        /\ DigitsAt(name, k + 3, 5)
        /\ name[k + 9] = "."
        /\ DigitsAt(name, k + 9, 2)
        /\ name[k + 12] \in { "s", "S" }

\* the archive the loop stands at has a member, i.e. its name reaches
\* read_text_file_from_zip
AtMember == pc = "zip" /\ disk[unit][zi].kind # "nomember"

\* the step logs an ERROR for the archive, appends nothing and goes on to
\* the next archive or to the assembly of the day
Rejected ==
    /\ day_data' = day_data
    /\ log' = Append(log, [unit |-> unit, zip |-> zi, outcome |-> "ERROR"])
    /\ pc' \in { "zip", "assemble" }
    /\ unit' = unit

\* C22 as stated: a member whose name is not <station><3-digit day of the
\* year><2-digit hour>.<2-digit year>s, station in either case, is rejected
\* with an error and the run continues with the next archive.
C22_Original ==
    [][(AtMember /\ ~IsPatternName(disk[unit][zi].name)) => Rejected]_vars

\* C22: a member whose name does not hold that pattern anywhere, letters
\* compared without case, is rejected with an error: it adds nothing to the
\* day and the run continues with the next archive.
C22_BadNameRejected ==
    [][(AtMember /\ ~HoldsPattern(disk[unit][zi].name)) => Rejected]_vars

\* the first archive of a station-day, named abc1301.24s, has been rejected
\* and the loop stands at the second archive
C22_Witness ==
    /\ pc = "zip"
    /\ zi = 2
    /\ disk[unit][1].name = ShortName
    /\ day_data = << >>
    /\ log # << >>
    /\ log[Len(log)] = [unit |-> unit, zip |-> 1, outcome |-> "ERROR"]

-----------------------------------------------------------------------------
(* download-embrace-data.py: one call of download_file_async.              *)

\* most chunks a file is served in
MaxChunks == 2

\* the concurrency settings explored: the three arguments of
\* download_all_async
Settings ==
    { [downloads |-> 1, stations |-> 1, years |-> 1],
      [downloads |-> 2, stations |-> 1, years |-> 2],
      [downloads |-> 1, stations |-> 2, years |-> 1] }

\* retries = 3
retries == 3

\* range(n)
range(n) == 0..(n - 1)

File(data) == [exists |-> TRUE, data |-> data]

\* the files the server can hold, as their chunks in order
Bodies == { [i \in 1..n |-> i] : n \in 0..MaxChunks }

\* asyncio.Semaphore.locked(): no permit is free
locked_Never(value) == FALSE

locked(value) == value = 0

\* asyncio.Semaphore.release()
release_Lost(value) == value

release(value) == value + 1

\* the temp file stays where it is
rename_Nothing(f) == f

\* os.rename(temp_path, output_path)
rename(f) == [final |-> f.part, part |-> Absent]

\* the output directory holds no file, or the file a previous run completed;
\* self.semaphore is as line 260 made it
InitDownload ==
    /\ body \in Bodies
    /\ fs \in { [final |-> Absent, part |-> Absent],
                [final |-> File(body), part |-> Absent] }
    /\ dl_pc = "sem"
    /\ max_concurrent_downloads \in { setting.downloads : setting \in Settings }
    /\ semaphore = max_concurrent_downloads
    /\ attempt = 0
    /\ requests = 0
    /\ dl_result = "none"
    /\ max_concurrent_stations = 0
    /\ max_concurrent_years = 0
    /\ all_pc = "off"
    /\ year_semaphore = 0
    /\ year_tasks = << >>
    /\ year_results = << >>
    /\ station_semaphore = << >>
    /\ station_tasks = << >>
    /\ station_results = << >>
    /\ download_tasks = << >>
    /\ main_pbar = 0
    /\ total_files = 0
    /\ outside_data = {}
    /\ IdleRerun
    /\ IdleZip
    /\ IdleParse
    /\ IdleConv
    /\ IdleTables
    /\ IdleCal
    /\ IdleRun

DownloadRest ==
    UNCHANGED <<body, argVars, taskVars, outside_data, rerunVars, zipVars,
                parseVars, convVars, tabVars, calVars, runVars>>

\* `return r` inside `async with self.semaphore`
Return(r) ==
    /\ dl_result' = r
    /\ dl_pc' = "returned"
    /\ semaphore' = release(semaphore)

\* lines 157-162: the handler of the outer try, entered with the files as f
ExceptException(f) ==
    /\ fs' = [f EXCEPT !.part = Absent]
    /\ attempt' = attempt
    /\ Return("False")

\* the for loop takes its next value, or ends and line 156 returns False
NextAttempt(f) ==
    /\ fs' = f
    /\ IF attempt + 1 \in range(retries)
       THEN /\ attempt' = attempt + 1
            /\ dl_pc' = "get"
            /\ UNCHANGED <<dl_result, semaphore>>
       ELSE /\ attempt' = attempt
            /\ Return("False")

\* lines 149-154: the handler of aiohttp.ClientError, entered with the files as f
ExceptClientError(f) ==
    IF attempt < retries - 1
    THEN NextAttempt(f)
    ELSE ExceptException(f)

\* line 101: async with self.semaphore
Acquire ==
    /\ dl_pc = "sem"
    /\ ~locked(semaphore)
    /\ semaphore' = semaphore - 1
    /\ dl_pc' = "check"
    /\ UNCHANGED <<attempt, requests, fs, dl_result>>
    /\ DownloadRest

\* lines 113-121: the file already exists, or the retry loop starts
CheckExists ==
    /\ dl_pc = "check"
    /\ IF fs.final.exists
       THEN Return("True")
       ELSE /\ dl_pc' = "get"
            /\ UNCHANGED <<dl_result, semaphore>>
    /\ attempt' = 0
    /\ UNCHANGED <<requests, fs>>
    /\ DownloadRest

\* lines 123-135: session.get(file_url) is answered with a status other than
\* 200, with status 200 (the temp file is opened with 'wb'), or it raises
Get ==
    /\ dl_pc = "get"
    /\ requests' = requests + 1
    /\ \E answer \in { "status", "200", "ClientError", "Exception" } :
          CASE answer = "status" ->
                 IF attempt < retries - 1
                 THEN NextAttempt(fs)
                 ELSE /\ UNCHANGED <<fs, attempt>>
                      /\ Return("False")
            [] answer = "200" ->
                 /\ fs' = [fs EXCEPT !.part = File(<< >>)]
                 /\ dl_pc' = "body"
                 /\ UNCHANGED <<attempt, dl_result, semaphore>>
            [] answer = "ClientError" -> ExceptClientError(fs)
            [] answer = "Exception" -> ExceptException(fs)
    /\ DownloadRest

\* lines 137-138: one chunk arrives and is written to the temp file
WriteChunk ==
    /\ dl_pc = "body"
    /\ Len(fs.part.data) < Len(body)
    /\ fs' = [fs EXCEPT !.part.data = Append(@, body[Len(@) + 1])]
    /\ UNCHANGED <<dl_pc, attempt, requests, dl_result, semaphore>>
    /\ DownloadRest

\* lines 136-138: the connection breaks before the body is complete, or the
\* write fails
BodyRaises ==
    /\ dl_pc = "body"
    /\ \/ Len(fs.part.data) < Len(body) /\ ExceptClientError(fs)
       \/ ExceptException(fs)
    /\ UNCHANGED requests
    /\ DownloadRest

\* lines 140-148: the body is complete, the temp file gets the final name
Rename ==
    /\ dl_pc = "body"
    /\ Len(fs.part.data) = Len(body)
    /\ fs' = rename(fs)
    /\ Return("True")
    /\ UNCHANGED <<attempt, requests>>
    /\ DownloadRest

NextDownload == Acquire \/ CheckExists \/ Get \/ WriteChunk \/ BodyRaises \/ Rename

SpecDownload == InitDownload /\ [][NextDownload]_vars

-----------------------------------------------------------------------------
(* One download.                                                           *)

\* C24: one call issues at most 3 GET requests; it returns True only with the
\* file under its final name, which was there before the call or is the
\* whole body written to the temp file and renamed; the file under the final
\* name is never a part of the body only.
C24_CompleteOrNothing ==
    /\ requests <= 3
    /\ dl_result = "True" =>
          /\ fs.final.exists
          /\ requests = 0 \/ ~fs.part.exists
    /\ fs.final.exists => fs.final.data = body

\* the call has returned True on its third request, after two attempts that
\* failed: the whole body is under the final name
C24_Witness ==
    /\ dl_result = "True"
    /\ requests = 3
    /\ Len(body) = MaxChunks
    /\ fs.final = File(body)

\* C25: when the call has returned False, no temp file is left.
C25_Original ==
    dl_result = "False" => ~fs.part.exists

-----------------------------------------------------------------------------
(* download-embrace-data.py: download_all_async.                           *)

\* most files the listing of one station holds
MaxFiles == 2

\* self.years
Years == << "2023", "2024" >>

\* the station directories the server lists for a year
ServerStations(y) ==
    IF Years[y] = "2023" THEN << "abc", "xyz" >> ELSE << "abc" >>

YearSet == DOMAIN Years
StationSet(y) == DOMAIN ServerStations(y)
FileSet == 1..MaxFiles

\* sum(results) over a list of counts
RECURSIVE sum(_)
sum(results) ==
    IF results = << >> THEN 0 ELSE results[1] + sum(Tail(results))

\* sum(1 for r in results if r)
successful(results) ==
    Cardinality({ f \in DOMAIN results : results[f] = "True" })

\* download_all_async has been called with its three limits
InitAll ==
    /\ \E setting \in Settings :
          /\ max_concurrent_downloads = setting.downloads
          /\ max_concurrent_stations = setting.stations
          /\ max_concurrent_years = setting.years
    /\ all_pc = "start"
    /\ semaphore = 0
    /\ year_semaphore = 0
    /\ year_tasks = [y \in YearSet |-> "none"]
    /\ year_results = [y \in YearSet |-> 0]
    /\ station_semaphore = [y \in YearSet |-> 0]
    /\ station_tasks = [y \in YearSet |-> [s \in StationSet(y) |-> "none"]]
    /\ station_results = [y \in YearSet |-> [s \in StationSet(y) |-> 0]]
    /\ download_tasks =
          [y \in YearSet |-> [s \in StationSet(y) |-> [f \in FileSet |-> "none"]]]
    /\ main_pbar = 0
    /\ total_files = 0
    /\ dl_pc = "off"
    /\ attempt = 0
    /\ requests = 0
    /\ body = << >>
    /\ fs = [final |-> Absent, part |-> Absent]
    /\ dl_result = "none"
    /\ outside_data = {}
    /\ IdleRerun
    /\ IdleZip
    /\ IdleParse
    /\ IdleConv
    /\ IdleTables
    /\ IdleCal
    /\ IdleRun

AllRest ==
    UNCHANGED <<callVars, argVars, outside_data, rerunVars, zipVars,
                parseVars, convVars, tabVars, calVars, runVars>>

\* lines 260-282: the semaphores are created and the year tasks gathered
StartAll ==
    /\ all_pc = "start"
    /\ semaphore' = max_concurrent_downloads
    /\ year_semaphore' = max_concurrent_years
    /\ year_tasks' = [y \in YearSet |-> "wait"]
    /\ all_pc' = "gather"
    /\ UNCHANGED <<year_results, station_semaphore, station_tasks,
                   station_results, download_tasks, main_pbar, total_files>>
    /\ AllRest

\* line 274: async with year_semaphore
AcquireYear(y) ==
    /\ year_tasks[y] = "wait"
    /\ ~locked(year_semaphore)
    /\ year_semaphore' = year_semaphore - 1
    /\ year_tasks' = [year_tasks EXCEPT ![y] = "stations"]
    /\ UNCHANGED <<all_pc, semaphore, year_results, station_semaphore,
                   station_tasks, station_results, download_tasks, main_pbar,
                   total_files>>
    /\ AllRest

\* lines 208-234: the stations of the year are known: none (return 0), or
\* the station tasks are gathered behind a new station_semaphore
StationsListed(y) ==
    /\ year_tasks[y] = "stations"
    /\ \E stations_to_download \in { << >>, ServerStations(y) } :
          IF stations_to_download = << >>
          THEN /\ year_tasks' = [year_tasks EXCEPT ![y] = "done"]
               /\ year_results' = [year_results EXCEPT ![y] = 0]
               /\ year_semaphore' = release(year_semaphore)
               /\ UNCHANGED <<station_semaphore, station_tasks>>
          ELSE /\ year_tasks' = [year_tasks EXCEPT ![y] = "gather"]
               /\ station_semaphore' =
                     [station_semaphore EXCEPT ![y] = max_concurrent_stations]
               /\ station_tasks' =
                     [station_tasks EXCEPT ![y] = [s \in StationSet(y) |-> "wait"]]
               /\ UNCHANGED <<year_results, year_semaphore>>
    /\ UNCHANGED <<all_pc, semaphore, station_results, download_tasks,
                   main_pbar, total_files>>
    /\ AllRest

\* line 226: async with station_semaphore
AcquireStation(y, s) ==
    /\ station_tasks[y][s] = "wait"
    /\ ~locked(station_semaphore[y])
    /\ station_semaphore' = [station_semaphore EXCEPT ![y] = @ - 1]
    /\ station_tasks' = [station_tasks EXCEPT ![y][s] = "files"]
    /\ UNCHANGED <<all_pc, semaphore, year_semaphore, year_tasks, year_results,
                   station_results, download_tasks, main_pbar, total_files>>
    /\ AllRest

\* lines 168-192: the file list of the station has arrived: empty (return
\* 0), or one download task per file is gathered
FilesListed(y, s) ==
    /\ station_tasks[y][s] = "files"
    /\ \E n \in 0..MaxFiles :
          IF n = 0
          THEN /\ station_tasks' = [station_tasks EXCEPT ![y][s] = "done"]
               /\ station_results' = [station_results EXCEPT ![y][s] = 0]
               /\ station_semaphore' =
                     [station_semaphore EXCEPT ![y] = release(@)]
               /\ UNCHANGED download_tasks
          ELSE /\ station_tasks' = [station_tasks EXCEPT ![y][s] = "gather"]
               /\ download_tasks' =
                     [download_tasks EXCEPT ![y][s] =
                        [f \in FileSet |-> IF f <= n THEN "wait" ELSE "none"]]
               /\ UNCHANGED <<station_results, station_semaphore>>
    /\ UNCHANGED <<all_pc, semaphore, year_semaphore, year_tasks, year_results,
                   main_pbar, total_files>>
    /\ AllRest

\* line 101: async with self.semaphore
AcquireDownload(y, s, f) ==
    /\ download_tasks[y][s][f] = "wait"
    /\ ~locked(semaphore)
    /\ semaphore' = semaphore - 1
    /\ download_tasks' = [download_tasks EXCEPT ![y][s][f] = "held"]
    /\ UNCHANGED <<all_pc, year_semaphore, year_tasks, year_results,
                   station_semaphore, station_tasks, station_results,
                   main_pbar, total_files>>
    /\ AllRest

\* lines 103-162: the requests of the call have been answered and it
\* returns; pbar.update(1) goes with each return of True
DownloadReturns(y, s, f) ==
    /\ download_tasks[y][s][f] = "held"
    /\ \E r \in { "True", "False" } :
          /\ download_tasks' = [download_tasks EXCEPT ![y][s][f] = r]
          /\ main_pbar' = IF r = "True" THEN main_pbar + 1 ELSE main_pbar
    /\ semaphore' = release(semaphore)
    /\ UNCHANGED <<all_pc, year_semaphore, year_tasks, year_results,
                   station_semaphore, station_tasks, station_results,
                   total_files>>
    /\ AllRest

\* lines 192-198 and 226: the gather of the download tasks returns, the
\* station returns its count and leaves the station_semaphore
StationReturns(y, s) ==
    /\ station_tasks[y][s] = "gather"
    /\ \A f \in FileSet : download_tasks[y][s][f] \notin { "wait", "held" }
    /\ station_results' =
          [station_results EXCEPT ![y][s] = successful(download_tasks[y][s])]
    /\ download_tasks' =
          [download_tasks EXCEPT ![y][s] =
             [f \in FileSet |-> IF @[f] = "none" THEN "none" ELSE "done"]]
    /\ station_tasks' = [station_tasks EXCEPT ![y][s] = "done"]
    /\ station_semaphore' = [station_semaphore EXCEPT ![y] = release(@)]
    /\ UNCHANGED <<all_pc, semaphore, year_semaphore, year_tasks, year_results,
                   main_pbar, total_files>>
    /\ AllRest

\* lines 234-239 and 274: the gather of the station tasks returns, the year
\* returns its sum and leaves the year_semaphore
YearReturns(y) ==
    /\ year_tasks[y] = "gather"
    /\ \A s \in StationSet(y) : station_tasks[y][s] = "done"
    /\ year_results' = [year_results EXCEPT ![y] = sum(station_results[y])]
    /\ year_tasks' = [year_tasks EXCEPT ![y] = "done"]
    /\ year_semaphore' = release(year_semaphore)
    /\ UNCHANGED <<all_pc, semaphore, station_semaphore, station_tasks,
                   station_results, download_tasks, main_pbar, total_files>>
    /\ AllRest

\* lines 282-290: the gather of the year tasks returns
AllReturns ==
    /\ all_pc = "gather"
    /\ \A y \in YearSet : year_tasks[y] = "done"
    /\ total_files' = sum(year_results)
    /\ all_pc' = "returned"
    /\ UNCHANGED <<semaphore, year_semaphore, year_tasks, year_results,
                   station_semaphore, station_tasks, station_results,
                   download_tasks, main_pbar>>
    /\ AllRest

\* what the event loop does on its own: start tasks, hand out permits,
\* return from a gather whose tasks are all done
EventLoop ==
    \/ StartAll
    \/ \E y \in YearSet : AcquireYear(y)
    \/ \E y \in YearSet : \E s \in StationSet(y) : AcquireStation(y, s)
    \/ \E y \in YearSet : \E s \in StationSet(y) : \E f \in FileSet :
          AcquireDownload(y, s, f)
    \/ \E y \in YearSet : \E s \in StationSet(y) : StationReturns(y, s)
    \/ \E y \in YearSet : YearReturns(y)
    \/ AllReturns

\* what happens when the server answers, or a request fails
HttpFinishes ==
    \/ \E y \in YearSet : StationsListed(y)
    \/ \E y \in YearSet : \E s \in StationSet(y) : FilesListed(y, s)
    \/ \E y \in YearSet : \E s \in StationSet(y) : \E f \in FileSet :
          DownloadReturns(y, s, f)

NextAll == EventLoop \/ HttpFinishes

SpecAll == InitAll /\ [][NextAll]_vars

\* the event loop runs every task that is ready, and every HTTP request
\* finishes or fails (the session has connect and read timeouts)
SpecAllFair == SpecAll /\ WF_vars(EventLoop) /\ WF_vars(HttpFinishes)

-----------------------------------------------------------------------------
(* Concurrency limits.                                                     *)

\* the calls of download_file_async that are past the semaphore
PastSemaphore ==
    UNION { { t \in { y } \X (DOMAIN download_tasks[y]) \X FileSet :
                download_tasks[y][t[2]][t[3]] = "held" } :
            y \in DOMAIN download_tasks }

\* the stations of year y being processed
Processing(y) ==
    { s \in DOMAIN station_tasks[y] : station_tasks[y][s] \in { "files", "gather" } }

\* C23: at every moment at most max_concurrent_downloads calls of
\* download_file_async are past the semaphore, over all years and stations,
\* and in each year at most max_concurrent_stations stations are being
\* processed.
C23_Limits ==
    all_pc \in { "gather", "returned" } =>
        /\ Cardinality(PastSemaphore) <= max_concurrent_downloads
        /\ \A y \in DOMAIN station_tasks :
              Cardinality(Processing(y)) <= max_concurrent_stations

\* both limits are reached and hold a task back: downloads of two years
\* fill the semaphore while another waits for it, and a station waits for
\* the station being processed in its year
C23_Witness ==
    /\ all_pc = "gather"
    /\ Cardinality(PastSemaphore) = max_concurrent_downloads
    /\ { t[1] : t \in PastSemaphore } = YearSet
    /\ \E y \in YearSet : \E s \in StationSet(y) : \E f \in FileSet :
          download_tasks[y][s][f] = "wait"
    /\ \E y \in YearSet :
          /\ Cardinality(Processing(y)) = max_concurrent_stations
          /\ \E s \in StationSet(y) : station_tasks[y][s] = "wait"

-----------------------------------------------------------------------------
(* Termination.                                                            *)

\* no task is waiting for a permit or holding one
AllTasksDone ==
    /\ \A y \in YearSet : year_tasks[y] = "done"
    /\ \A y \in YearSet : \A s \in DOMAIN station_tasks[y] :
          station_tasks[y][s] \in { "none", "done" }
    /\ \A y \in YearSet : \A s \in DOMAIN station_tasks[y] : \A f \in FileSet :
          download_tasks[y][s][f] \in { "none", "done" }

\* C26: when the event loop runs every ready task and every HTTP request
\* finishes or fails, download_all_async returns: by then every download,
\* station and year task has got its permit and completed, and the value
\* returned is the number of downloads that returned True.
C26_Returns ==
    <>(/\ all_pc = "returned"
       /\ AllTasksDone
       /\ total_files = main_pbar)

\* download_all_async has returned a count of at least two after tasks had
\* to wait for each of the three semaphores
C26_Witness ==
    /\ all_pc = "returned"
    /\ AllTasksDone
    /\ total_files = main_pbar
    /\ total_files >= 2
    /\ max_concurrent_years = 1
    /\ max_concurrent_stations = 1
    /\ max_concurrent_downloads = 1


=============================================================================
